---- MODULE Spec2Model ----
(***************************************************************************)
(* Model of the ail stream translator (StreamConverter): cross-chunk       *)
(* metadata, per-target unit splitting, tool-call buffering, and the three *)
(* stream-chunk emitters it drives.                                        *)
(***************************************************************************)
EXTENDS Integers, Sequences, FiniteSets, TLC

\* ------------------------------------------------------------------ bounds
MaxProgLen == 1
MaxArgsLen == 2
MaxSplitLen == 3
NumThreads == 2
MaxCalls == 3

\* ------------------------------------------------------------ data shapes
\* Styles accepted by GetStreamChunkEmitter.
StyleChatCompletions == "openai-chat-completions"
StyleAnthropic == "anthropic-messages"
StyleGoogleGenAI == "google-genai"
TargetStyles == {StyleChatCompletions, StyleAnthropic, StyleGoogleGenAI}

\* A JSON payload.  kind: "nil" (no bytes), "bad" (bytes that are not JSON),
\* "td" (a tool-delta object), "usage" (a usage object).  Strings that are
\* concatenated (tool arguments) are sequences of characters.
NilJSON == [kind |-> "nil", index |-> 0, id |-> "", name |-> "", arguments |-> <<>>]
BadJSON == [kind |-> "bad", index |-> 0, id |-> "", name |-> "", arguments |-> <<>>]
UsageJSON == [kind |-> "usage", index |-> 0, id |-> "", name |-> "", arguments |-> <<>>]
ToolDeltaJSON(i, id, name, args) ==
    [kind |-> "td", index |-> i, id |-> id, name |-> name, arguments |-> args]

\* Instruction{Op, Str, JSON}
Instruction(op, str, json) == [Op |-> op, Str |-> str, JSON |-> json]

\* json.Valid on a byte string over the alphabet { '{', '}' }: the only JSON
\* text is the empty object.
IsValidJSONText(s) == s = <<"{", "}">>

\* json.Marshal of a json.RawMessage fails when the bytes are not valid JSON;
\* a nil RawMessage marshals as null.
RawMessageMarshals(j) == j.kind # "bad"

\* ------------------------------------------------- translator: metadata
RECURSIVE LastStr(_, _, _, _)
\* Last value of opcode op in code[1..i], or dflt when there is none.
LastStr(code, i, op, dflt) ==
    IF i = 0 THEN dflt
    ELSE IF code[i].Op = op THEN code[i].Str
    ELSE LastStr(code, i - 1, op, dflt)

HasOp(code, op) == \E i \in 1..Len(code) : code[i].Op = op

CountOp(code, op) == Cardinality({i \in 1..Len(code) : code[i].Op = op})

\* trackMetadata: remember the last RESP_ID and RESP_MODEL of the program.
trackMetadata(id, model, code) ==
    [respID |-> LastStr(code, Len(code), "RESP_ID", id),
     respModel |-> LastStr(code, Len(code), "RESP_MODEL", model)]

\* Fault: the instructions are prepended without looking for them in the unit.
injectMetadata_NoLookup(id, model, code) ==
    LET pre1 == IF id # ""
                THEN <<Instruction("RESP_ID", id, NilJSON)>> ELSE <<>>
        pre2 == IF model # ""
                THEN <<Instruction("RESP_MODEL", model, NilJSON)>> ELSE <<>>
    IN pre1 \o pre2 \o code

\* injectMetadata: prepend RESP_ID / RESP_MODEL when missing and known.
injectMetadata(id, model, code) ==
    LET pre1 == IF ~HasOp(code, "RESP_ID") /\ id # ""
                THEN <<Instruction("RESP_ID", id, NilJSON)>> ELSE <<>>
        pre2 == IF ~HasOp(code, "RESP_MODEL") /\ model # ""
                THEN <<Instruction("RESP_MODEL", model, NilJSON)>> ELSE <<>>
    IN pre1 \o pre2 \o code

\* ------------------------------------------- translator: Strategy B split
EventOps == {"STREAM_START", "STREAM_DELTA", "STREAM_TOOL_DELTA", "RESP_DONE", "STREAM_END"}

RECURSIVE LastDoneEvent(_, _)
\* Greatest i <= n with events[i][1].Op = RESP_DONE, or 0.
LastDoneEvent(events, n) ==
    IF n = 0 THEN 0
    ELSE IF events[n][1].Op = "RESP_DONE" THEN n
    ELSE LastDoneEvent(events, n - 1)

RECURSIVE FirstStartEvent(_, _)
\* Least i >= k with events[i][1].Op = STREAM_START, or 0.
FirstStartEvent(events, k) ==
    IF k > Len(events) THEN 0
    ELSE IF events[k][1].Op = "STREAM_START" THEN k
    ELSE FirstStartEvent(events, k + 1)

RECURSIVE splitLoop(_, _, _, _)
\* The scan of splitForTarget: builds meta and events.
splitLoop(code, i, meta, events) ==
    IF i > Len(code) THEN [meta |-> meta, events |-> events]
    ELSE LET inst == code[i] IN
         IF inst.Op \in {"RESP_ID", "RESP_MODEL"}
         THEN splitLoop(code, i + 1, Append(meta, inst), events)
         ELSE IF inst.Op \in EventOps
         THEN splitLoop(code, i + 1, meta, Append(events, <<inst>>))
         ELSE IF inst.Op = "USAGE"
         THEN LET k == LastDoneEvent(events, Len(events)) IN
              IF k # 0
              THEN splitLoop(code, i + 1, meta,
                             [events EXCEPT ![k] = Append(events[k], inst)])
              ELSE splitLoop(code, i + 1, Append(meta, inst), events)
         ELSE splitLoop(code, i + 1, meta, events)

\* Fault: the program is handed on whole.
splitForTarget_Whole(code) == <<code>>

\* splitForTarget: one unit per event-producing opcode.
splitForTarget(code) ==
    LET r == splitLoop(code, 1, <<>>, <<>>)
        s == FirstStartEvent(r.events, 1)
        targetIdx == IF s = 0 THEN 1 ELSE s
    IN IF r.events = <<>>
       THEN (IF r.meta # <<>> THEN <<r.meta>> ELSE <<>>)
       ELSE [r.events EXCEPT ![targetIdx] = r.meta \o r.events[targetIdx]]

\* ------------------------------------------ translator: Strategy C buffer
\* pendingToolCall{ID, Name, Args}
pendingToolCall == [ID |-> "", Name |-> "", Args |-> <<>>]

EmptyTools == [i \in {} |-> pendingToolCall]

\* json.Unmarshal into the tool-delta struct succeeds on any JSON object.
UnmarshalsAsObject(j) == j.kind \in {"td", "usage"}

\* Fault: the index is appended to toolOrder for every fragment.
bufferToolDelta_AlwaysAppend(pt, ord, j) ==
    IF ~UnmarshalsAsObject(j) THEN [pendingTools |-> pt, toolOrder |-> ord]
    ELSE LET ok == j.index \in DOMAIN pt
             tc == IF ok THEN pt[j.index] ELSE pendingToolCall
             tc2 == [ID |-> IF j.id # "" THEN j.id ELSE tc.ID,
                     Name |-> IF j.name # "" THEN j.name ELSE tc.Name,
                     Args |-> tc.Args \o j.arguments]
         IN [pendingTools |-> [k \in (DOMAIN pt) \cup {j.index} |->
                                  IF k = j.index THEN tc2 ELSE pt[k]],
             toolOrder |-> Append(ord, j.index)]

\* Fault: a new index is put at the front of toolOrder.
bufferToolDelta_Prepend(pt, ord, j) ==
    IF ~UnmarshalsAsObject(j) THEN [pendingTools |-> pt, toolOrder |-> ord]
    ELSE LET ok == j.index \in DOMAIN pt
             tc == IF ok THEN pt[j.index] ELSE pendingToolCall
             tc2 == [ID |-> IF j.id # "" THEN j.id ELSE tc.ID,
                     Name |-> IF j.name # "" THEN j.name ELSE tc.Name,
                     Args |-> tc.Args \o j.arguments]
         IN [pendingTools |-> [k \in (DOMAIN pt) \cup {j.index} |->
                                  IF k = j.index THEN tc2 ELSE pt[k]],
             toolOrder |-> IF ok THEN ord ELSE <<j.index>> \o ord]

\* bufferToolDelta: merge one fragment into pendingTools by index.
bufferToolDelta(pt, ord, j) ==
    IF ~UnmarshalsAsObject(j) THEN [pendingTools |-> pt, toolOrder |-> ord]
    ELSE LET ok == j.index \in DOMAIN pt
             tc == IF ok THEN pt[j.index] ELSE pendingToolCall
             tc2 == [ID |-> IF j.id # "" THEN j.id ELSE tc.ID,
                     Name |-> IF j.name # "" THEN j.name ELSE tc.Name,
                     Args |-> tc.Args \o j.arguments]
         IN [pendingTools |-> [k \in (DOMAIN pt) \cup {j.index} |->
                                  IF k = j.index THEN tc2 ELSE pt[k]],
             toolOrder |-> IF ok THEN ord ELSE Append(ord, j.index)]

\* Fault: the buffer is not cleared after the drain.
drainPendingTools_KeepBuffer(pt, ord) ==
    IF Len(ord) = 0 THEN [prog |-> <<>>, pendingTools |-> pt, toolOrder |-> ord]
    ELSE [prog |-> [n \in 1..Len(ord) |->
                      Instruction("STREAM_TOOL_DELTA", "",
                                  ToolDeltaJSON(ord[n], pt[ord[n]].ID,
                                                pt[ord[n]].Name, pt[ord[n]].Args))],
          pendingTools |-> pt,
          toolOrder |-> ord]

\* drainPendingTools: one complete STREAM_TOOL_DELTA per buffered index, in
\* toolOrder; clears the buffer.  prog = <<>> stands for the nil result.
drainPendingTools(pt, ord) ==
    IF Len(ord) = 0 THEN [prog |-> <<>>, pendingTools |-> pt, toolOrder |-> ord]
    ELSE [prog |-> [n \in 1..Len(ord) |->
                      Instruction("STREAM_TOOL_DELTA", "",
                                  ToolDeltaJSON(ord[n], pt[ord[n]].ID,
                                                pt[ord[n]].Name, pt[ord[n]].Args))],
          pendingTools |-> EmptyTools,
          toolOrder |-> <<>>]

RECURSIVE bufferLoop_ToolsFirst(_, _, _, _, _, _)
\* Fault: at a terminal opcode the drained tools go before the content.
bufferLoop_ToolsFirst(code, i, results, current, pt, ord) ==
    IF i > Len(code)
    THEN [units |-> IF Len(current) > 0 THEN Append(results, current) ELSE results,
          pendingTools |-> pt, toolOrder |-> ord]
    ELSE LET inst == code[i] IN
         IF inst.Op = "STREAM_TOOL_DELTA"
         THEN LET b == bufferToolDelta(pt, ord, inst.JSON) IN
              bufferLoop_ToolsFirst(code, i + 1, results, current,
                                    b.pendingTools, b.toolOrder)
         ELSE IF inst.Op \in {"RESP_DONE", "STREAM_END"}
         THEN LET d == drainPendingTools(pt, ord)
                  r1 == IF d.prog # <<>> THEN Append(results, d.prog) ELSE results
                  r2 == IF Len(current) > 0 THEN Append(r1, current) ELSE r1
              IN bufferLoop_ToolsFirst(code, i + 1, Append(r2, <<inst>>), <<>>,
                                       d.pendingTools, d.toolOrder)
         ELSE bufferLoop_ToolsFirst(code, i + 1, results, Append(current, inst), pt, ord)

RECURSIVE bufferLoop(_, _, _, _, _, _)
\* The scan of processWithBuffering.
bufferLoop(code, i, results, current, pt, ord) ==
    IF i > Len(code)
    THEN [units |-> IF Len(current) > 0 THEN Append(results, current) ELSE results,
          pendingTools |-> pt, toolOrder |-> ord]
    ELSE LET inst == code[i] IN
         IF inst.Op = "STREAM_TOOL_DELTA"
         THEN LET b == bufferToolDelta(pt, ord, inst.JSON) IN
              bufferLoop(code, i + 1, results, current, b.pendingTools, b.toolOrder)
         ELSE IF inst.Op \in {"RESP_DONE", "STREAM_END"}
         THEN LET r1 == IF Len(current) > 0 THEN Append(results, current) ELSE results
                  d == drainPendingTools(pt, ord)
                  r2 == IF d.prog # <<>> THEN Append(r1, d.prog) ELSE r1
              IN bufferLoop(code, i + 1, Append(r2, <<inst>>), <<>>,
                            d.pendingTools, d.toolOrder)
         ELSE bufferLoop(code, i + 1, results, Append(current, inst), pt, ord)

\* processWithBuffering: tool deltas are held back until a terminal opcode.
processWithBuffering(code, pt, ord) == bufferLoop(code, 1, <<>>, <<>>, pt, ord)

targetNeedsSplitting(target) == target = StyleAnthropic

\* Fault: no target is buffered.
bufferTools_Never(target) == FALSE

\* bufferTools as set by NewStreamConverter.
bufferTools(target) == target = StyleGoogleGenAI

\* processInstructions: choose the strategy by target style.
processInstructions(target, code, pt, ord) ==
    IF targetNeedsSplitting(target)
    THEN [units |-> splitForTarget(code), pendingTools |-> pt, toolOrder |-> ord]
    ELSE IF bufferTools(target)
    THEN processWithBuffering(code, pt, ord)
    ELSE [units |-> <<code>>, pendingTools |-> pt, toolOrder |-> ord]

\* ------------------------------------------------------------- emitters
\* One emitted JSON chunk.  parts: Google content parts / the Anthropic
\* event body; choices: OpenAI choices; usage: "" when the key is absent,
\* else the kind of the JSON value written.
Part(kind, text, index, id, name, args) ==
    [kind |-> kind, text |-> text, index |-> index, id |-> id, name |-> name, args |-> args]

Choice(role, content, toolCalls, finish) ==
    [role |-> role, content |-> content, tool_calls |-> toolCalls, finish_reason |-> finish]

Chunk(type, id, model, usage, parts, choices, finish) ==
    [type |-> type, id |-> id, model |-> model, usage |-> usage,
     parts |-> parts, choices |-> choices, finish |-> finish]

NoChunk == Chunk("", "", "", "", <<>>, <<>>, "")

EmitResult(err, out) == [err |-> err, out |-> out]

RECURSIVE LastJSON(_, _, _)
\* JSON payload of the last instruction with opcode op in code[1..i].
LastJSON(code, i, op) ==
    IF i = 0 THEN NilJSON
    ELSE IF code[i].Op = op THEN code[i].JSON
    ELSE LastJSON(code, i - 1, op)

\* finish-reason mapping of GoogleGenAIEmitter.EmitStreamChunk
GoogleFinishReason(s) ==
    IF s = "stop" THEN "STOP" ELSE IF s = "length" THEN "MAX_TOKENS" ELSE s

RECURSIVE googleLoop(_, _, _)
googleLoop(code, i, acc) ==
    IF i > Len(code) THEN acc
    ELSE LET inst == code[i] IN
         googleLoop(code, i + 1,
           CASE inst.Op = "RESP_MODEL" -> [acc EXCEPT !.model = inst.Str]
             [] inst.Op = "STREAM_DELTA" ->
                  [acc EXCEPT !.parts = Append(@, Part("text", inst.Str, 0, "", "", <<>>))]
             [] inst.Op = "STREAM_TOOL_DELTA" /\ UnmarshalsAsObject(inst.JSON) ->
                  [acc EXCEPT !.parts = Append(@, Part("functionCall", "", 0, "",
                                                      inst.JSON.name, inst.JSON.arguments))]
             [] inst.Op = "RESP_DONE" -> [acc EXCEPT !.finish = GoogleFinishReason(inst.Str)]
             [] inst.Op = "USAGE" /\ UnmarshalsAsObject(inst.JSON) ->
                  [acc EXCEPT !.usage = "usage"]
             [] OTHER -> acc)

\* GoogleGenAIEmitter.EmitStreamChunk: one candidate with the parts of the
\* unit.  args is written as raw JSON, so json.Marshal fails when the
\* arguments of a functionCall are present and are not a JSON text.
GoogleEmitStreamChunk(code) ==
    LET c == googleLoop(code, 1, Chunk("google", "", "", "", <<>>, <<>>, ""))
        bad == \E n \in 1..Len(c.parts) :
                  /\ c.parts[n].kind = "functionCall"
                  /\ c.parts[n].args # <<>>
                  /\ ~IsValidJSONText(c.parts[n].args)
    IN IF bad THEN EmitResult(TRUE, NoChunk) ELSE EmitResult(FALSE, c)

RECURSIVE chatLoop(_, _, _, _)
\* cur: position in choices of the map the Go variable delta points at
\* (0 while delta is nil).
chatLoop(code, i, acc, cur) ==
    IF i > Len(code) THEN acc
    ELSE LET inst == code[i]
             fresh == Append(acc.choices, Choice("", "", <<>>, ""))
             ch == IF cur = 0 THEN fresh ELSE acc.choices
             at == IF cur = 0 THEN Len(fresh) ELSE cur
         IN CASE inst.Op = "RESP_ID" -> chatLoop(code, i + 1, [acc EXCEPT !.id = inst.Str], cur)
              [] inst.Op = "RESP_MODEL" ->
                   chatLoop(code, i + 1, [acc EXCEPT !.model = inst.Str], cur)
              [] inst.Op = "USAGE" ->
                   chatLoop(code, i + 1, [acc EXCEPT !.usage = inst.JSON.kind], cur)
              [] inst.Op = "STREAM_START" ->
                   chatLoop(code, i + 1,
                            [acc EXCEPT !.choices = Append(@, Choice("assistant", "", <<>>, ""))],
                            Len(acc.choices) + 1)
              [] inst.Op = "STREAM_DELTA" ->
                   chatLoop(code, i + 1,
                            [acc EXCEPT !.choices = [ch EXCEPT ![at].content = inst.Str]], at)
              [] inst.Op = "STREAM_TOOL_DELTA" ->
                   chatLoop(code, i + 1,
                            [acc EXCEPT !.choices =
                               IF UnmarshalsAsObject(inst.JSON)
                               THEN [ch EXCEPT ![at].tool_calls =
                                       <<Part("function", "", inst.JSON.index, inst.JSON.id,
                                              inst.JSON.name, inst.JSON.arguments)>>]
                               ELSE ch],
                            at)
              [] inst.Op = "RESP_DONE" ->
                   chatLoop(code, i + 1,
                            [acc EXCEPT !.choices = Append(@, Choice("", "", <<>>, inst.Str))],
                            cur)
              [] OTHER -> chatLoop(code, i + 1, acc, cur)

\* ChatCompletionsEmitter.EmitStreamChunk: the whole unit becomes one
\* chat.completion.chunk; usage is written as raw JSON.
ChatEmitStreamChunk(code) ==
    LET c == chatLoop(code, 1, Chunk("chat.completion.chunk", "", "", "", <<>>, <<>>, ""), 0)
    IN IF c.usage = "bad" THEN EmitResult(TRUE, NoChunk) ELSE EmitResult(FALSE, c)

\* stop-reason mapping of AnthropicEmitter.EmitStreamChunk
AnthropicStopReason(s) ==
    CASE s = "stop" -> "end_turn"
      [] s = "tool_calls" -> "tool_use"
      [] s = "length" -> "max_tokens"
      [] OTHER -> s

RECURSIVE anthropicLoop(_, _)
\* Returns at the first instruction that produces an event.
anthropicLoop(code, i) ==
    IF i > Len(code)
    THEN EmitResult(FALSE, Chunk("ping", "", "", "", <<>>, <<>>, ""))
    ELSE LET inst == code[i]
             j == inst.JSON
             u == LastJSON(code, Len(code), "USAGE")
         IN CASE inst.Op = "STREAM_START" ->
                   EmitResult(FALSE, Chunk("message_start",
                                           LastStr(code, Len(code), "RESP_ID", ""),
                                           LastStr(code, Len(code), "RESP_MODEL", ""),
                                           "", <<>>, <<>>, ""))
              [] inst.Op = "STREAM_DELTA" ->
                   EmitResult(FALSE, Chunk("content_block_delta", "", "", "",
                                           <<Part("text_delta", inst.Str, 0, "", "", <<>>)>>,
                                           <<>>, ""))
              [] inst.Op = "STREAM_THINK_DELTA" ->
                   EmitResult(FALSE, Chunk("content_block_delta", "", "", "",
                                           <<Part("thinking_delta", inst.Str, 0, "", "", <<>>)>>,
                                           <<>>, ""))
              [] inst.Op = "STREAM_TOOL_DELTA" /\ UnmarshalsAsObject(j) /\ j.name # "" ->
                   EmitResult(FALSE, Chunk("content_block_start", "", "", "",
                                           <<Part("tool_use", "", j.index, j.id, j.name, <<>>)>>,
                                           <<>>, ""))
              [] inst.Op = "STREAM_TOOL_DELTA" /\ UnmarshalsAsObject(j) /\ j.name = ""
                    /\ j.arguments # <<>> ->
                   EmitResult(FALSE, Chunk("content_block_delta", "", "", "",
                                           <<Part("input_json_delta", "", j.index, "", "",
                                                  j.arguments)>>,
                                           <<>>, ""))
              [] inst.Op = "RESP_DONE" ->
                   IF HasOp(code, "USAGE") /\ ~RawMessageMarshals(u)
                   THEN EmitResult(TRUE, NoChunk)
                   ELSE EmitResult(FALSE, Chunk("message_delta", "", "",
                                                IF HasOp(code, "USAGE") THEN u.kind ELSE "",
                                                <<>>, <<>>, AnthropicStopReason(inst.Str)))
              [] inst.Op = "STREAM_END" ->
                   EmitResult(FALSE, Chunk("message_stop", "", "", "", <<>>, <<>>, ""))
              [] OTHER -> anthropicLoop(code, i + 1)

\* AnthropicEmitter.EmitStreamChunk: one typed SSE event per unit.
AnthropicEmitStreamChunk(code) == anthropicLoop(code, 1)

\* The emitter NewStreamConverter obtained from GetStreamChunkEmitter.
EmitStreamChunk(target, code) ==
    CASE target = StyleAnthropic -> AnthropicEmitStreamChunk(code)
      [] target = StyleGoogleGenAI -> GoogleEmitStreamChunk(code)
      [] OTHER -> ChatEmitStreamChunk(code)

\* ------------------------------------------------- source-side parsing
\* A chat-completions stream chunk as the parser reads it.  hasId/hasModel/
\* hasUsage: the top-level key is present; choices: the choices array.
SourceChunk(hasId, id, hasModel, model, hasUsage, choices) ==
    [hasId |-> hasId, id |-> id, hasModel |-> hasModel, model |-> model,
     hasUsage |-> hasUsage, choices |-> choices]

\* One element of choices: delta.role, delta.content,
\* delta.reasoning_content, delta.tool_calls and finish_reason.
SourceChoice(role, content, reasoning, toolCalls, finish) ==
    [role |-> role, content |-> content, reasoning |-> reasoning,
     tool_calls |-> toolCalls, finish_reason |-> finish]

\* The instructions ParseStreamChunk emits for one choice.
ParseChoice(ch) ==
    (IF ch.role # "" THEN <<Instruction("STREAM_START", "", NilJSON)>> ELSE <<>>)
    \o (IF ch.content # "" THEN <<Instruction("STREAM_DELTA", ch.content, NilJSON)>> ELSE <<>>)
    \o (IF ch.reasoning # ""
        THEN <<Instruction("STREAM_THINK_DELTA", ch.reasoning, NilJSON)>> ELSE <<>>)
    \o [n \in 1..Len(ch.tool_calls) |->
          Instruction("STREAM_TOOL_DELTA", "", ch.tool_calls[n])]
    \o (IF ch.finish_reason # ""
        THEN <<Instruction("RESP_DONE", ch.finish_reason, NilJSON),
               Instruction("STREAM_END", "", NilJSON)>>
        ELSE <<>>)

RECURSIVE ParseChoices(_, _)
ParseChoices(choices, i) ==
    IF i > Len(choices) THEN <<>>
    ELSE ParseChoice(choices[i]) \o ParseChoices(choices, i + 1)

\* ChatCompletionsParser.ParseStreamChunk: id, model, usage, then choices.
ParseStreamChunk(c) ==
    (IF c.hasId THEN <<Instruction("RESP_ID", c.id, NilJSON)>> ELSE <<>>)
    \o (IF c.hasModel THEN <<Instruction("RESP_MODEL", c.model, NilJSON)>> ELSE <<>>)
    \o (IF c.hasUsage THEN <<Instruction("USAGE", "", UsageJSON)>> ELSE <<>>)
    \o ParseChoices(c.choices, 1)

\* ------------------------------------------------ translator: push/flush
RECURSIVE emitLoop(_, _, _, _, _, _)
\* The emit loop of pushProgramLocked: inject, emit, stop at the first error.
emitLoop(target, id, model, units, i, acc) ==
    IF i > Len(units) THEN acc
    ELSE LET unit == injectMetadata(id, model, units[i])
             r == EmitStreamChunk(target, unit)
         IN IF r.err
            THEN [acc EXCEPT !.err = TRUE]
            ELSE emitLoop(target, id, model, units, i + 1,
                          [acc EXCEPT !.units = Append(@, unit),
                                      !.outputs = Append(@, r.out)])

\* pushProgramLocked: the shared core of Push and PushProgram.  units are
\* the units processInstructions produced, sent the units handed to the
\* emitter (after injection) up to the first error.
pushProgramLocked(target, id, model, pt, ord, code) ==
    IF Len(code) = 0
    THEN [respID |-> id, respModel |-> model, pendingTools |-> pt, toolOrder |-> ord,
          units |-> <<>>, sent |-> <<>>, outputs |-> <<>>, err |-> FALSE]
    ELSE LET m == trackMetadata(id, model, code)
             p == processInstructions(target, code, pt, ord)
             e == emitLoop(target, m.respID, m.respModel, p.units, 1,
                           [units |-> <<>>, outputs |-> <<>>, err |-> FALSE])
         IN [respID |-> m.respID, respModel |-> m.respModel,
             pendingTools |-> p.pendingTools, toolOrder |-> p.toolOrder,
             units |-> p.units, sent |-> e.units, outputs |-> e.outputs, err |-> e.err]

\* StreamConverter.Flush: drain, inject, emit; nothing on error.
flushLocked(target, id, model, pt, ord) ==
    LET d == drainPendingTools(pt, ord)
        unit == injectMetadata(id, model, d.prog)
        r == EmitStreamChunk(target, unit)
    IN IF d.prog = <<>>
       THEN [pendingTools |-> d.pendingTools, toolOrder |-> d.toolOrder,
             units |-> <<>>, sent |-> <<>>, outputs |-> <<>>, err |-> FALSE]
       ELSE IF r.err
       THEN [pendingTools |-> d.pendingTools, toolOrder |-> d.toolOrder,
             units |-> <<d.prog>>, sent |-> <<>>, outputs |-> <<>>, err |-> TRUE]
       ELSE [pendingTools |-> d.pendingTools, toolOrder |-> d.toolOrder,
             units |-> <<d.prog>>, sent |-> <<unit>>, outputs |-> <<r.out>>, err |-> FALSE]

\* ---------------------------------------------------------------- inputs
ToolIndices == {0, 1}
ToolName(i) == IF i = 0 THEN "f0" ELSE "f1"
ToolId(i) == IF i = 0 THEN "c0" ELSE "c1"
ArgFragments == {<<"{">>, <<"}">>}

\* Tool deltas as stream parsers produce them: a start fragment (id and
\* name) or an arguments fragment.
ToolDeltas ==
    {ToolDeltaJSON(i, ToolId(i), ToolName(i), <<>>) : i \in ToolIndices}
    \cup {ToolDeltaJSON(i, "", "", a) : i \in ToolIndices, a \in ArgFragments}

TextDelta == Instruction("STREAM_DELTA", "t", NilJSON)
RespDone == Instruction("RESP_DONE", "stop", NilJSON)
StreamEnd == Instruction("STREAM_END", "", NilJSON)

\* Instructions of the tool-buffering scenarios: tool fragments, text, the
\* terminal opcodes and a tool delta whose payload is not JSON.
ToolStreamInstructions ==
    {TextDelta, RespDone, StreamEnd, Instruction("STREAM_TOOL_DELTA", "", BadJSON)}
    \cup {Instruction("STREAM_TOOL_DELTA", "", j) : j \in ToolDeltas}

SeqsUpTo(S, n) == UNION {[1..k -> S] : k \in 0..n}

Programs == SeqsUpTo(ToolStreamInstructions, MaxProgLen)

SourceChoices ==
    {SourceChoice("", c, "", tc, f) :
        c \in {"", "t"},
        tc \in {<<>>} \cup {<<j>> : j \in ToolDeltas},
        f \in {"", "stop"}}

SourceChunks ==
    {SourceChunk(FALSE, "", FALSE, "", FALSE, chs) :
        chs \in {<<>>} \cup {<<ch>> : ch \in SourceChoices}}

\* Instructions of the split scenarios: metadata, every event-producing
\* opcode, a thinking delta and usage.
SplitInstructions ==
    {Instruction("RESP_ID", "r1", NilJSON), Instruction("RESP_MODEL", "m1", NilJSON),
     Instruction("STREAM_START", "", NilJSON), TextDelta,
     Instruction("STREAM_THINK_DELTA", "k", NilJSON),
     Instruction("STREAM_TOOL_DELTA", "", ToolDeltaJSON(0, ToolId(0), ToolName(0), <<>>)),
     Instruction("STREAM_TOOL_DELTA", "", ToolDeltaJSON(0, "", "", <<"{">>)),
     RespDone, StreamEnd, Instruction("USAGE", "", UsageJSON)}

SplitPrograms == SeqsUpTo(SplitInstructions, MaxSplitLen)

SplitChunks ==
    {SourceChunk(hasId, "r1", FALSE, "", hasUsage, chs) :
        hasId \in BOOLEAN, hasUsage \in BOOLEAN,
        chs \in {<<>>} \cup
                {<<SourceChoice(role, c, "", tc, f)>> :
                    role \in {"", "assistant"}, c \in {"", "t"},
                    tc \in {<<>>, <<ToolDeltaJSON(0, ToolId(0), ToolName(0), <<>>)>>},
                    f \in {"", "stop"}}}

\* Instructions of the metadata scenarios: ids (one of them empty), a model,
\* text, a terminal opcode and the start of a tool call.
MetaInstructions ==
    {Instruction("RESP_ID", "r1", NilJSON), Instruction("RESP_ID", "", NilJSON),
     Instruction("RESP_MODEL", "m1", NilJSON), TextDelta, RespDone,
     Instruction("STREAM_TOOL_DELTA", "", ToolDeltaJSON(0, ToolId(0), ToolName(0), <<>>))}

MetaPrograms == SeqsUpTo(MetaInstructions, MaxProgLen)

MetaChunks ==
    {SourceChunk(hasId, id, hasModel, "m1", FALSE, chs) :
        hasId \in BOOLEAN, id \in {"r1", ""}, hasModel \in BOOLEAN,
        chs \in {<<>>,
                 <<SourceChoice("", "t", "", <<>>, "")>>,
                 <<SourceChoice("", "", "",
                                <<ToolDeltaJSON(0, ToolId(0), ToolName(0), <<>>)>>, "")>>,
                 <<SourceChoice("", "", "", <<>>, "stop")>>}}

\* ----------------------------------------------------------------- state
\* The converter's fields; what the last call was given and returned; and
\* the history of the stream.  record says for which calls the history keeps
\* the program and the units as produced: "none", "all", or "terminal" (the
\* pushes whose program holds RESP_DONE or STREAM_END).
VARIABLES targetStyle, respID, respModel, pendingTools, toolOrder,
          lastOp, lastProg, lastUnits, lastSent, lastOut, lastErr,
          triggered, quietSinceFlush, open, closed, frags, carried, record

\* Concurrent callers: the mutex, each goroutine's position, call, local
\* units and return value; the calls made so far; what the calls return and
\* leave behind when run one after the other in the order they took the
\* mutex; and the tool calls buffered and emitted so far.
VARIABLES mu, pc, call, loc, ret, calls, ser, expect, buffered, emitted

histVars == <<lastOp, lastProg, lastUnits, lastSent, lastOut, lastErr,
              triggered, quietSinceFlush, open, closed, frags, carried, record>>

\* The Program library (program.go, binary.go, asm.go, disasm.go, ailmanip.go,
\* emit_anthropic_response.go): the operation applied last, what it was given
\* and what it returned; and, where storage matters, the heap of backing
\* arrays with the Program values that point into it.
VARIABLES libOp, libArg, libRes, heap, progs

concVars == <<mu, pc, call, loc, ret, calls, ser, expect, buffered, emitted>>

libVars == <<libOp, libArg, libRes, heap, progs>>

streamVars == <<targetStyle, respID, respModel, pendingTools, toolOrder, histVars, concVars>>

vars == <<targetStyle, respID, respModel, pendingTools, toolOrder, histVars, concVars,
          libVars>>

\* History bookkeeping, kept apart from the translator's own buffers.
IsTerminal(inst) == inst.Op \in {"RESP_DONE", "STREAM_END"}
IsToolDelta(inst) == inst.Op = "STREAM_TOOL_DELTA" /\ UnmarshalsAsObject(inst.JSON)
HasTerminal(code) == \E i \in 1..Len(code) : IsTerminal(code[i])

RECURSIVE OpenAfter(_, _, _)
\* Tool indices with a delta since the last terminal opcode, first seen first.
OpenAfter(code, i, o) ==
    IF i > Len(code) THEN o
    ELSE IF IsTerminal(code[i]) THEN OpenAfter(code, i + 1, <<>>)
    ELSE IF IsToolDelta(code[i]) /\ \A n \in 1..Len(o) : o[n] # code[i].JSON.index
    THEN OpenAfter(code, i + 1, Append(o, code[i].JSON.index))
    ELSE OpenAfter(code, i + 1, o)

RECURSIVE ClosedBy(_, _, _)
\* Number of tool calls that meet a terminal opcode while open.
ClosedBy(code, i, o) ==
    IF i > Len(code) THEN 0
    ELSE IF IsTerminal(code[i]) THEN Len(o) + ClosedBy(code, i + 1, <<>>)
    ELSE IF IsToolDelta(code[i]) /\ \A n \in 1..Len(o) : o[n] # code[i].JSON.index
    THEN ClosedBy(code, i + 1, Append(o, code[i].JSON.index))
    ELSE ClosedBy(code, i + 1, o)

NoFrags == [i \in ToolIndices |-> <<>>]

RECURSIVE FragsAfter(_, _, _)
\* Per tool index, the argument fragments that arrived since the last
\* terminal opcode, in arrival order.
FragsAfter(code, i, f) ==
    IF i > Len(code) THEN f
    ELSE IF IsTerminal(code[i]) THEN FragsAfter(code, i + 1, NoFrags)
    ELSE IF IsToolDelta(code[i]) /\ code[i].JSON.arguments # <<>>
    THEN FragsAfter(code, i + 1,
                    [f EXCEPT ![code[i].JSON.index] = Append(@, code[i].JSON.arguments)])
    ELSE FragsAfter(code, i + 1, f)

ArgsWithin(pt) == \A k \in DOMAIN pt : Len(pt[k].Args) <= MaxArgsLen

\* NewStreamConverter(from, to): the fields of a fresh converter.
NewStreamConverter(to) ==
    /\ targetStyle = to
    /\ respID = ""
    /\ respModel = ""
    /\ pendingTools = EmptyTools
    /\ toolOrder = <<>>

FreshHistory ==
    /\ lastOp = "new"
    /\ lastProg = <<>>
    /\ lastUnits = <<>>
    /\ lastSent = <<>>
    /\ lastOut = <<>>
    /\ lastErr = FALSE
    /\ triggered = FALSE
    /\ quietSinceFlush = FALSE
    /\ open = <<>>
    /\ closed = 0
    /\ frags = NoFrags
    /\ carried = FALSE

Threads == 1..NumThreads

NoCall == [op |-> "none", code |-> <<>>]
NoReturn == [outputs |-> <<>>, err |-> FALSE]
Fields(id, model, pt, ord) ==
    [respID |-> id, respModel |-> model, pendingTools |-> pt, toolOrder |-> ord]

\* No library operation has run and nothing is allocated.
NoLibrary ==
    /\ libOp = "none"
    /\ libArg = <<>>
    /\ libRes = <<>>
    /\ heap = <<>>
    /\ progs = <<>>

\* No call is in progress.
NoCalls ==
    /\ mu = 0
    /\ pc = [t \in Threads |-> "idle"]
    /\ call = [t \in Threads |-> NoCall]
    /\ loc = [t \in Threads |-> <<>>]
    /\ ret = [t \in Threads |-> NoReturn]
    /\ calls = 0
    /\ ser = Fields("", "", EmptyTools, <<>>)
    /\ expect = [t \in Threads |-> NoReturn]
    /\ buffered = 0
    /\ emitted = 0

Init ==
    /\ \E to \in TargetStyles : NewStreamConverter(to)
    /\ FreshHistory
    /\ record = "none"
    /\ NoCalls
    /\ NoLibrary

Recorded(code) == record = "all" \/ (record = "terminal" /\ HasTerminal(code))

\* The effect of one locked push of program code.
DoPush(op, code) ==
    \E r \in {pushProgramLocked(targetStyle, respID, respModel, pendingTools, toolOrder, code)} :
       /\ ArgsWithin(r.pendingTools)
       /\ respID' = r.respID
       /\ respModel' = r.respModel
       /\ pendingTools' = r.pendingTools
       /\ toolOrder' = r.toolOrder
       /\ lastOp' = op
       /\ lastProg' = IF Recorded(code) THEN code ELSE <<>>
       /\ lastUnits' = IF Recorded(code) THEN r.units ELSE <<>>
       /\ lastSent' = r.sent
       /\ lastOut' = r.outputs
       /\ lastErr' = r.err
       /\ triggered' = (triggered \/ HasTerminal(code))
       /\ quietSinceFlush' = (quietSinceFlush /\ ~HasOp(code, "STREAM_TOOL_DELTA"))
       /\ open' = IF bufferTools(targetStyle) THEN OpenAfter(code, 1, open) ELSE <<>>
       /\ closed' = IF bufferTools(targetStyle) THEN ClosedBy(code, 1, open) ELSE 0
       /\ frags' = IF bufferTools(targetStyle) THEN FragsAfter(code, 1, frags) ELSE NoFrags
       /\ carried' = (carried \/ (/\ HasOp(code, "RESP_ID") /\ r.respID # ""
                                   /\ HasOp(code, "RESP_MODEL") /\ r.respModel # ""))
       /\ UNCHANGED <<targetStyle, record, concVars, libVars>>

\* StreamConverter.Push(sourceChunk)
Push == \E c \in SourceChunks : DoPush("push", ParseStreamChunk(c))

\* StreamConverter.PushProgram(prog)
PushProgram == \E code \in Programs : DoPush("pushProgram", code)

\* Fault: Flush also forgets the remembered id and model.
Flush_ForgetsMetadata ==
    \E r \in {flushLocked(targetStyle, respID, respModel, pendingTools, toolOrder)} :
       /\ pendingTools' = r.pendingTools
       /\ toolOrder' = r.toolOrder
       /\ respID' = ""
       /\ respModel' = ""
       /\ lastOp' = "flush"
       /\ lastProg' = <<>>
       /\ lastUnits' = IF record = "all" THEN r.units ELSE <<>>
       /\ lastSent' = r.sent
       /\ lastOut' = r.outputs
       /\ lastErr' = r.err
       /\ triggered' = TRUE
       /\ quietSinceFlush' = TRUE
       /\ open' = <<>>
       /\ closed' = IF bufferTools(targetStyle) THEN Len(open) ELSE 0
       /\ frags' = NoFrags
       /\ UNCHANGED <<targetStyle, carried, record, concVars, libVars>>

\* StreamConverter.Flush()
Flush ==
    \E r \in {flushLocked(targetStyle, respID, respModel, pendingTools, toolOrder)} :
       /\ pendingTools' = r.pendingTools
       /\ toolOrder' = r.toolOrder
       /\ lastOp' = "flush"
       /\ lastProg' = <<>>
       /\ lastUnits' = IF record = "all" THEN r.units ELSE <<>>
       /\ lastSent' = r.sent
       /\ lastOut' = r.outputs
       /\ lastErr' = r.err
       /\ triggered' = TRUE
       /\ quietSinceFlush' = TRUE
       /\ open' = <<>>
       /\ closed' = IF bufferTools(targetStyle) THEN Len(open) ELSE 0
       /\ frags' = NoFrags
       /\ UNCHANGED <<targetStyle, respID, respModel, carried, record, concVars, libVars>>

Next == Push \/ PushProgram \/ Flush

Spec == Init /\ [][Next]_vars

\* One push into a fresh converter with an Anthropic target.
InitSplit ==
    /\ NewStreamConverter(StyleAnthropic)
    /\ FreshHistory
    /\ record = "all"
    /\ NoCalls
    /\ NoLibrary

PushSplit == lastOp = "new" /\ \E c \in SplitChunks : DoPush("push", ParseStreamChunk(c))

PushProgramSplit == lastOp = "new" /\ \E code \in SplitPrograms : DoPush("pushProgram", code)

NextSplit == PushSplit \/ PushProgramSplit

SpecSplit == InitSplit /\ [][NextSplit]_vars

\* A stream with response metadata, towards any target.
InitMeta ==
    /\ \E to \in TargetStyles : NewStreamConverter(to)
    /\ FreshHistory
    /\ record = "all"
    /\ NoCalls
    /\ NoLibrary

PushMeta == \E c \in MetaChunks : DoPush("push", ParseStreamChunk(c))

PushProgramMeta == \E code \in MetaPrograms : DoPush("pushProgram", code)

NextMeta == PushMeta \/ PushProgramMeta \/ Flush

SpecMeta == InitMeta /\ [][NextMeta]_vars

\* A stream towards a Google target up to its first terminal opcode.
InitDrain ==
    /\ NewStreamConverter(StyleGoogleGenAI)
    /\ FreshHistory
    /\ record = "terminal"
    /\ NoCalls
    /\ NoLibrary

PushDrain == ~triggered /\ Push

PushProgramDrain == ~triggered /\ PushProgram

NextDrain == PushDrain \/ PushProgramDrain

SpecDrain == InitDrain /\ [][NextDrain]_vars

RECURSIVE FCCount(_, _)
\* Number of functionCall parts in outs[i..].
FCCount(outs, i) ==
    IF i > Len(outs) THEN 0
    ELSE Cardinality({n \in 1..Len(outs[i].parts) : outs[i].parts[n].kind = "functionCall"})
         + FCCount(outs, i + 1)

\* Goroutines calling one converter.  A call takes the mutex, runs its body
\* step by step on the converter's fields, and releases the mutex on return.
ConcPrograms ==
    {<<Instruction("RESP_ID", "r1", NilJSON)>>,
     <<TextDelta>>,
     <<Instruction("STREAM_TOOL_DELTA", "", ToolDeltaJSON(0, ToolId(0), ToolName(0), <<>>))>>,
     <<Instruction("STREAM_TOOL_DELTA", "", ToolDeltaJSON(0, "", "", <<"{">>))>>,
     <<Instruction("STREAM_TOOL_DELTA", "", ToolDeltaJSON(0, "", "", <<"}">>))>>,
     <<RespDone>>}

ConcChunks ==
    {SourceChunk(FALSE, "", FALSE, "", FALSE, <<>>),
     SourceChunk(TRUE, "r1", TRUE, "m1", FALSE, <<SourceChoice("", "t", "", <<>>, "")>>),
     SourceChunk(FALSE, "", FALSE, "", FALSE, <<SourceChoice("", "", "", <<>>, "stop")>>)}

ConcCalls ==
    {[op |-> "pushProgram", code |-> code] : code \in ConcPrograms}
    \cup {[op |-> "push", code |-> ParseStreamChunk(c)] : c \in ConcChunks}
    \cup {[op |-> "flush", code |-> <<>>]}

InitConc ==
    /\ \E to \in TargetStyles : NewStreamConverter(to)
    /\ FreshHistory
    /\ record = "none"
    /\ NoCalls
    /\ NoLibrary

\* A goroutine calls Push, PushProgram or Flush.
Call(t) ==
    /\ pc[t] = "idle"
    /\ calls < MaxCalls
    /\ \E c \in ConcCalls : call' = [call EXCEPT ![t] = c]
    /\ calls' = calls + 1
    /\ pc' = [pc EXCEPT ![t] = "lock"]
    /\ UNCHANGED <<targetStyle, respID, respModel, pendingTools, toolOrder, histVars, libVars,
                   mu, loc, ret, ser, expect, buffered, emitted>>

\* What the call in progress returns and leaves behind when run alone.
Alone(target, f, c) ==
    IF c.op = "flush"
    THEN LET r == flushLocked(target, f.respID, f.respModel, f.pendingTools, f.toolOrder)
         IN [fields |-> Fields(f.respID, f.respModel, r.pendingTools, r.toolOrder),
             return |-> [outputs |-> r.outputs, err |-> r.err]]
    ELSE LET r == pushProgramLocked(target, f.respID, f.respModel,
                                    f.pendingTools, f.toolOrder, c.code)
         IN [fields |-> Fields(r.respID, r.respModel, r.pendingTools, r.toolOrder),
             return |-> [outputs |-> r.outputs, err |-> r.err]]

\* c.mu.Lock()
Lock(t) ==
    /\ pc[t] = "lock"
    /\ mu = 0
    /\ mu' = t
    /\ pc' = [pc EXCEPT ![t] = IF call[t].op = "flush" THEN "drain" ELSE "track"]
    /\ \E a \in {Alone(targetStyle, ser, call[t])} :
          /\ ser' = a.fields
          /\ expect' = [expect EXCEPT ![t] = a.return]
    /\ UNCHANGED <<targetStyle, respID, respModel, pendingTools, toolOrder, histVars, libVars,
                   call, loc, ret, calls, buffered, emitted>>

\* pushProgramLocked: the empty-program return, then trackMetadata.
Track(t) ==
    /\ pc[t] = "track"
    /\ IF Len(call[t].code) = 0
       THEN /\ ret' = [ret EXCEPT ![t] = NoReturn]
            /\ pc' = [pc EXCEPT ![t] = "unlock"]
            /\ UNCHANGED <<respID, respModel>>
       ELSE /\ \E m \in {trackMetadata(respID, respModel, call[t].code)} :
                  respID' = m.respID /\ respModel' = m.respModel
            /\ pc' = [pc EXCEPT ![t] = "process"]
            /\ UNCHANGED ret
    /\ UNCHANGED <<targetStyle, pendingTools, toolOrder, histVars, libVars,
                   mu, call, loc, calls, ser, expect, buffered, emitted>>

\* pushProgramLocked: units := c.processInstructions(parsed)
Process(t) ==
    /\ pc[t] = "process"
    /\ \E p \in {processInstructions(targetStyle, call[t].code, pendingTools, toolOrder)} :
          /\ pendingTools' = p.pendingTools
          /\ toolOrder' = p.toolOrder
          /\ loc' = [loc EXCEPT ![t] = p.units]
    /\ buffered' = IF bufferTools(targetStyle)
                   THEN buffered + ClosedBy(call[t].code, 1, toolOrder)
                                 + Len(OpenAfter(call[t].code, 1, toolOrder))
                                 - Len(toolOrder)
                   ELSE buffered
    /\ pc' = [pc EXCEPT ![t] = "emit"]
    /\ UNCHANGED <<targetStyle, respID, respModel, histVars, libVars,
                   mu, call, ret, calls, ser, expect, emitted>>

\* Flush: toolProg := c.drainPendingTools(), and the nil return.
Drain(t) ==
    /\ pc[t] = "drain"
    /\ \E d \in {drainPendingTools(pendingTools, toolOrder)} :
          /\ pendingTools' = d.pendingTools
          /\ toolOrder' = d.toolOrder
          /\ IF d.prog = <<>>
             THEN /\ ret' = [ret EXCEPT ![t] = NoReturn]
                  /\ pc' = [pc EXCEPT ![t] = "unlock"]
                  /\ UNCHANGED loc
             ELSE /\ loc' = [loc EXCEPT ![t] = <<d.prog>>]
                  /\ pc' = [pc EXCEPT ![t] = "emit"]
                  /\ UNCHANGED ret
    /\ UNCHANGED <<targetStyle, respID, respModel, histVars, libVars,
                   mu, call, calls, ser, expect, buffered, emitted>>

\* The inject-and-emit loop of pushProgramLocked, or the single inject and
\* emit of Flush, which returns no output on an error.
Emit(t) ==
    /\ pc[t] = "emit"
    /\ \E e \in {emitLoop(targetStyle, respID, respModel, loc[t], 1,
                          [units |-> <<>>, outputs |-> <<>>, err |-> FALSE])} :
          \E outs \in {IF call[t].op = "flush" /\ e.err THEN <<>> ELSE e.outputs} :
             /\ ret' = [ret EXCEPT ![t] = [outputs |-> outs, err |-> e.err]]
             /\ emitted' = IF bufferTools(targetStyle)
                           THEN emitted + FCCount(outs, 1) ELSE emitted
    /\ pc' = [pc EXCEPT ![t] = "unlock"]
    /\ UNCHANGED <<targetStyle, respID, respModel, pendingTools, toolOrder, histVars, libVars,
                   mu, call, loc, calls, ser, expect, buffered>>

\* The deferred c.mu.Unlock() at return.
Unlock(t) ==
    /\ pc[t] = "unlock"
    /\ mu' = 0
    /\ pc' = [pc EXCEPT ![t] = "idle"]
    /\ UNCHANGED <<targetStyle, respID, respModel, pendingTools, toolOrder, histVars, libVars,
                   call, loc, ret, calls, ser, expect, buffered, emitted>>

NextConc ==
    \E t \in Threads :
       Call(t) \/ Lock(t) \/ Track(t) \/ Process(t) \/ Drain(t) \/ Emit(t) \/ Unlock(t)

SpecConc == InitConc /\ [][NextConc]_vars

\* ------------------------------------------------------ tool buffering
ToolIndexSeq(unit) == [n \in 1..Len(unit) |-> unit[n].JSON.index]

\* C1: with a Google target no returned chunk has a functionCall part until a
\* pushed program contained RESP_DONE or STREAM_END, or Flush was called.
C1_NoFunctionCallBeforeTrigger ==
    (targetStyle = StyleGoogleGenAI /\ ~triggered) => FCCount(lastOut, 1) = 0

\* A tool call is held back: buffered, nothing emitted, no trigger yet.
C1_Witness ==
    /\ targetStyle = StyleGoogleGenAI
    /\ ~triggered
    /\ lastOp = "push"
    /\ 0 \in DOMAIN pendingTools
    /\ pendingTools[0].Name = "f0"
    /\ pendingTools[0].Args = <<"{">>

\* C2 as stated: with a Google target every call returns one functionCall part
\* per tool call that reached a terminal opcode or a Flush during it, and after
\* a Flush nothing is pending.
C2_EveryBufferedToolEmittedOnce ==
    targetStyle = StyleGoogleGenAI =>
        /\ FCCount(lastOut, 1) = closed
        /\ (lastOp = "flush" => (pendingTools = EmptyTools /\ toolOrder = <<>>))

\* C5 as stated: a call that ends in an emitter error has neither drained nor
\* discarded a tool call held in pendingTools / toolOrder.
C5_ErrorKeepsPendingTools ==
    [][lastErr' => (\A i \in DOMAIN pendingTools : i \in DOMAIN pendingTools')]_vars

C11_FlushKeepsMetadata ==
    [][/\ lastOp' = "flush" => (respID' = respID /\ respModel' = respModel)
       /\ (lastOp = "flush" /\ lastOp' \in {"push", "pushProgram"}) =>
             \A n \in 1..Len(lastSent') :
                /\ (respID # "" /\ ~HasOp(lastProg', "RESP_ID")) =>
                      lastSent'[n][1] = Instruction("RESP_ID", respID, NilJSON)
                /\ (respModel # "" /\ ~HasOp(lastProg', "RESP_MODEL")) =>
                      \E k \in 1..2 :
                         lastSent'[n][k] = Instruction("RESP_MODEL", respModel, NilJSON)]_vars

\* After a chunk with id and model and a Flush, a text chunk without metadata
\* comes out with the id and model held before the Flush.
C11_Witness ==
    /\ targetStyle = StyleChatCompletions
    /\ quietSinceFlush
    /\ lastOp = "push"
    /\ lastProg = <<TextDelta>>
    /\ respID = "r1" /\ respModel = "m1"
    /\ Len(lastOut) = 1
    /\ lastOut[1].id = "r1" /\ lastOut[1].model = "m1"

\* ------------------------------------------------------- split per event
IsEvent(inst) == inst.Op \in EventOps

\* C8: with an Anthropic target the units of a push are, in order, the
\* event-producing instructions of the program, one per unit, and one event
\* is emitted per unit: message_delta for RESP_DONE, message_stop for STREAM_END.
C8_OneUnitPerEvent ==
    lastOp # "new" =>
        LET ev == SelectSeq(lastProg, IsEvent) IN
        IF ev = <<>>
        THEN /\ Len(lastUnits) <= 1
             /\ \A k \in 1..Len(lastUnits) : SelectSeq(lastUnits[k], IsEvent) = <<>>
        ELSE /\ Len(lastUnits) = Len(ev)
             /\ Len(lastOut) = Len(ev)
             /\ \A k \in 1..Len(ev) :
                   /\ SelectSeq(lastUnits[k], IsEvent) = <<ev[k]>>
                   /\ ev[k].Op = "RESP_DONE" => lastOut[k].type = "message_delta"
                   /\ ev[k].Op = "STREAM_END" => lastOut[k].type = "message_stop"

\* A source chunk with text and a finish reason yields content_block_delta,
\* message_delta, message_stop.
C8_Witness ==
    /\ lastOp = "push"
    /\ lastProg = <<TextDelta, RespDone, StreamEnd>>
    /\ Len(lastOut) = 3
    /\ lastOut[1].type = "content_block_delta"
    /\ lastOut[2].type = "message_delta"
    /\ lastOut[3].type = "message_stop"

\* C9 as stated: when the pushed program contains RESP_DONE, every USAGE is in
\* the unit of a RESP_DONE and the message_delta emitted for it carries usage.
C9_UsageJoinsRespDone ==
    (lastOp # "new" /\ HasOp(lastProg, "RESP_DONE")) =>
        \A k \in 1..Len(lastUnits) :
           HasOp(lastUnits[k], "USAGE") =>
              /\ HasOp(lastUnits[k], "RESP_DONE")
              /\ lastOut[k].type = "message_delta"
              /\ lastOut[k].usage # ""

\* ---------------------------------------------------- drain at a terminal
NotToolOp(inst) == inst.Op # "STREAM_TOOL_DELTA"

RECURSIVE FirstTerminal(_, _)
\* Least position >= i of a terminal opcode in code, or 0.
FirstTerminal(code, i) ==
    IF i > Len(code) THEN 0
    ELSE IF IsTerminal(code[i]) THEN i
    ELSE FirstTerminal(code, i + 1)

RECURSIVE Flat(_)
Flat(ss) == IF ss = <<>> THEN <<>> ELSE Head(ss) \o Flat(Tail(ss))

\* C10: with a Google target, a push whose program reaches a terminal opcode
\* produces first the non-tool content before it, then one unit with one
\* STREAM_TOOL_DELTA per pending index, in the order the indices were first
\* seen, whose arguments are the fragments buffered for that index
\* concatenated in arrival order, then the terminal opcode alone.
C10_ContentToolsTerminal ==
    [][(lastOp' \in {"push", "pushProgram"} /\ HasTerminal(lastProg')) =>
         LET code == lastProg'
             t == FirstTerminal(code, 1)
             pre == SubSeq(code, 1, t - 1)
             content == SelectSeq(pre, NotToolOp)
             o == OpenAfter(pre, 1, open)
             f == FragsAfter(pre, 1, frags)
             nc == IF content = <<>> THEN 0 ELSE 1
             nt == IF o = <<>> THEN 0 ELSE 1
         IN /\ Len(lastUnits') >= nc + nt + 1
            /\ nc = 1 => lastUnits'[1] = content
            /\ nt = 1 =>
                  /\ Len(lastUnits'[nc + 1]) = Len(o)
                  /\ \A n \in 1..Len(o) :
                        /\ lastUnits'[nc + 1][n].Op = "STREAM_TOOL_DELTA"
                        /\ lastUnits'[nc + 1][n].JSON.index = o[n]
                        /\ lastUnits'[nc + 1][n].JSON.arguments = Flat(f[o[n]])
            /\ lastUnits'[nc + nt + 1] = <<code[t]>>]_vars

\* Two fragments were buffered for index 0; a chunk with text and a finish
\* reason then yields the text, the complete tool call, RESP_DONE, STREAM_END.
C10_Witness ==
    /\ targetStyle = StyleGoogleGenAI
    /\ lastOp = "push"
    /\ lastProg = <<TextDelta, RespDone, StreamEnd>>
    /\ lastUnits = << <<TextDelta>>,
                      <<Instruction("STREAM_TOOL_DELTA", "",
                                    ToolDeltaJSON(0, ToolId(0), ToolName(0), <<"{", "}">>))>>,
                      <<RespDone>>, <<StreamEnd>> >>
    /\ ~lastErr
    /\ Len(lastOut) = 4

\* ------------------------------------------------------------ concurrency
\* Every call returns what it returns when the calls run one after the other
\* in the order they took the mutex, and between calls the fields are the
\* ones that serial run leaves.
C4_SerialOrder ==
    /\ \A t \in Threads : pc[t] = "unlock" => ret[t] = expect[t]
    /\ mu = 0 => Fields(respID, respModel, pendingTools, toolOrder) = ser

\* With a Google target, between calls every tool call buffered so far is
\* either still pending or was emitted, once.
C4_NoToolLostOrRepeated ==
    (bufferTools(targetStyle) /\ mu = 0) => emitted + Len(toolOrder) = buffered

\* C4 as stated: concurrent calls are equivalent to a serial order of the
\* calls, and no buffered tool call is emitted twice or dropped.
C4_ConcurrentCallsSafe == C4_SerialOrder /\ C4_NoToolLostOrRepeated

\* ================================================================ Program
\* A string or a byte slice is its sequence of bytes; a float64 is the eight
\* little-endian bytes of its IEEE-754 bit pattern.
MaxCodeLen == 1

OpByte ==
    [MSG_START |-> 16, MSG_END |-> 17, ROLE_SYS |-> 18, ROLE_USR |-> 19,
     ROLE_AST |-> 20, ROLE_TOOL |-> 21,
     TXT_CHUNK |-> 32, IMG_REF |-> 33, AUD_REF |-> 34, TXT_REF |-> 35,
     THINK_START |-> 40, THINK_CHUNK |-> 41, THINK_END |-> 42, THINK_REF |-> 43,
     DEF_START |-> 48, DEF_NAME |-> 49, DEF_DESC |-> 50, DEF_SCHEMA |-> 51,
     DEF_END |-> 52,
     CALL_START |-> 64, CALL_NAME |-> 65, CALL_ARGS |-> 66, CALL_END |-> 67,
     RESULT_START |-> 72, RESULT_DATA |-> 73, RESULT_END |-> 74,
     RESP_ID |-> 80, RESP_MODEL |-> 81, RESP_DONE |-> 82, USAGE |-> 83,
     STREAM_START |-> 96, STREAM_DELTA |-> 97, STREAM_TOOL_DELTA |-> 98,
     STREAM_END |-> 99, STREAM_THINK_DELTA |-> 100,
     SET_MODEL |-> 240, SET_TEMP |-> 241, SET_TOPP |-> 242, SET_STOP |-> 243,
     SET_MAX |-> 244, SET_STREAM |-> 245, SET_THINK |-> 246,
     EXT_DATA |-> 254, SET_META |-> 255]

Opcodes == DOMAIN OpByte

\* Opcode(b): the opcode with byte b, "UNKNOWN" when there is none.
OpOfByte(b) ==
    IF \E op \in Opcodes : OpByte[op] = b
    THEN CHOOSE op \in Opcodes : OpByte[op] = b
    ELSE "UNKNOWN"

ZeroFloat == <<0, 0, 0, 0, 0, 0, 0, 0>>

Inst(op, str, num, int, json, key, ref) ==
    [Op |-> op, Str |-> str, Num |-> num, Int |-> int, JSON |-> json,
     Key |-> key, Ref |-> ref]

OpInst(op) == Inst(op, <<>>, ZeroFloat, 0, <<>>, <<>>, 0)
StrInst(op, s) == Inst(op, s, ZeroFloat, 0, <<>>, <<>>, 0)
FloatInst(op, f) == Inst(op, <<>>, f, 0, <<>>, <<>>, 0)
IntInst(op, n) == Inst(op, <<>>, ZeroFloat, n, <<>>, <<>>, 0)
JSONInst(op, j) == Inst(op, <<>>, ZeroFloat, 0, j, <<>>, 0)
RefInst(op, r) == Inst(op, <<>>, ZeroFloat, 0, <<>>, <<>>, r)
KeyValInst(op, k, v) == Inst(op, v, ZeroFloat, 0, <<>>, k, 0)
KeyJSONInst(op, k, j) == Inst(op, <<>>, ZeroFloat, 0, j, k, 0)

\* A Program value: its code and its side-buffers.
Prog(code, buffers) == [Code |-> code, Buffers |-> buffers]

\* ----------------------------------------------------------------- binary.go
binaryMagic == <<65, 73, 76, 0>>
binaryVersion == 1

\* The argument classes of the switch in Encode and in Decode.
NoArgOps ==
    {"MSG_START", "MSG_END", "ROLE_SYS", "ROLE_USR", "ROLE_AST", "ROLE_TOOL",
     "DEF_START", "DEF_END", "CALL_END", "RESULT_END",
     "SET_STREAM", "STREAM_START", "STREAM_END"}
StringOps ==
    {"TXT_CHUNK", "DEF_NAME", "DEF_DESC", "CALL_START", "CALL_NAME",
     "RESULT_START", "RESULT_DATA", "RESP_ID", "RESP_MODEL", "RESP_DONE",
     "SET_MODEL", "SET_STOP", "STREAM_DELTA"}
FloatOps == {"SET_TEMP", "SET_TOPP"}
IntOps == {"SET_MAX"}
JSONOps == {"DEF_SCHEMA", "CALL_ARGS", "USAGE", "STREAM_TOOL_DELTA"}
RefOps == {"IMG_REF", "AUD_REF", "TXT_REF"}

\* binary.LittleEndian.PutUint32 for 0 <= u < 2^31.
PutUint32(u) ==
    <<u % 256, (u \div 256) % 256, (u \div 65536) % 256, (u \div 16777216) % 256>>

\* binary.LittleEndian.Uint32 for four bytes with the top bit clear.
Uint32(b) == b[1] + 256 * b[2] + 65536 * b[3] + 16777216 * b[4]

\* uint32(i) of an int32 written little-endian (two's complement).
PutInt32(i) ==
    IF i >= 0 THEN PutUint32(i)
    ELSE LET low == PutUint32((i + 2147483647) + 1)
         IN  <<low[1], low[2], low[3], low[4] + 128>>

\* int32(binary.LittleEndian.Uint32(b))
Int32(b) ==
    IF b[4] < 128 THEN Uint32(b)
    ELSE (Uint32(<<b[1], b[2], b[3], b[4] - 128>>) - 2147483647) - 1

writeBytes(b) == PutUint32(Len(b)) \o b
writeString(s) == writeBytes(s)
writeFloat64(f) == f
writeInt32(i) == PutInt32(i)
writeUint32(u) == PutUint32(u)

\* What Encode writes for one instruction after its opcode byte; ok is FALSE
\* in the default branch of the switch.
EncodeArgs(inst) ==
    IF inst.Op \in NoArgOps THEN [ok |-> TRUE, bytes |-> <<>>]
    ELSE IF inst.Op \in StringOps THEN [ok |-> TRUE, bytes |-> writeString(inst.Str)]
    ELSE IF inst.Op \in FloatOps THEN [ok |-> TRUE, bytes |-> writeFloat64(inst.Num)]
    ELSE IF inst.Op \in IntOps THEN [ok |-> TRUE, bytes |-> writeInt32(inst.Int)]
    ELSE IF inst.Op \in JSONOps THEN [ok |-> TRUE, bytes |-> writeBytes(inst.JSON)]
    ELSE IF inst.Op \in RefOps THEN [ok |-> TRUE, bytes |-> writeUint32(inst.Ref)]
    ELSE IF inst.Op = "SET_META"
         THEN [ok |-> TRUE, bytes |-> writeString(inst.Key) \o writeString(inst.Str)]
    ELSE IF inst.Op = "EXT_DATA"
         THEN [ok |-> TRUE, bytes |-> writeString(inst.Key) \o writeBytes(inst.JSON)]
    ELSE [ok |-> FALSE, bytes |-> <<>>]

RECURSIVE EncodeBuffers(_, _)
EncodeBuffers(buffers, i) ==
    IF i > Len(buffers) THEN <<>>
    ELSE writeBytes(buffers[i]) \o EncodeBuffers(buffers, i + 1)

\* The instruction loop of Encode: the opcode byte is written before the
\* switch, so an unknown opcode leaves its byte in the output.
RECURSIVE EncodeCode(_, _)
EncodeCode(code, i) ==
    IF i > Len(code) THEN [err |-> FALSE, bytes |-> <<>>]
    ELSE LET a == EncodeArgs(code[i])
         IN  IF ~a.ok THEN [err |-> TRUE, bytes |-> <<OpByte[code[i].Op]>>]
             ELSE LET rest == EncodeCode(code, i + 1)
                  IN  [err |-> rest.err,
                       bytes |-> <<OpByte[code[i].Op]>> \o a.bytes \o rest.bytes]

\* Program.Encode into a buffer: the error and the bytes written.
Encode(p) ==
    LET c == EncodeCode(p.Code, 1)
    IN  [err |-> c.err,
         bytes |-> binaryMagic \o <<binaryVersion>> \o writeUint32(Len(p.Buffers))
                     \o EncodeBuffers(p.Buffers, 1) \o c.bytes]

\* io.ReadFull of n bytes at pos: ok is FALSE on a short read (io.EOF or
\* io.ErrUnexpectedEOF).
ReadFull(bs, pos, n) ==
    IF pos + n - 1 > Len(bs) THEN [ok |-> FALSE, val |-> <<>>, pos |-> pos]
    ELSE [ok |-> TRUE, val |-> SubSeq(bs, pos, pos + n - 1), pos |-> pos + n]

\* The widths of int a build can have (GOARCH 386/arm against amd64/arm64).
IntSizes == {32, 64}

\* readBytes: the length prefix, then make([]byte, n) and io.ReadFull.  A
\* length of 2^31 or more does not fit the int of a 32-bit build, where
\* make panics ("makeslice: len out of range"); on a 64-bit build the slice
\* is made and the read comes up short.  kind is "ok", "err" or "panic".
readBytes(bs, pos, intSize) ==
    LET l == ReadFull(bs, pos, 4)
    IN  IF ~l.ok THEN [kind |-> "err", val |-> <<>>, pos |-> pos]
        ELSE IF l.val = <<0, 0, 0, 0>> THEN [kind |-> "ok", val |-> <<>>, pos |-> l.pos]
        ELSE IF l.val[4] >= 128
             THEN [kind |-> IF intSize = 32 THEN "panic" ELSE "err",
                   val |-> <<>>, pos |-> l.pos]
        ELSE LET d == ReadFull(bs, l.pos, Uint32(l.val))
             IN  [kind |-> IF d.ok THEN "ok" ELSE "err", val |-> d.val, pos |-> d.pos]

readString(bs, pos, intSize) == readBytes(bs, pos, intSize)

\* readUint32, readInt32 and readFloat64 leave the bytes to the caller.
readFixed(bs, pos, n) ==
    LET r == ReadFull(bs, pos, n)
    IN  [kind |-> IF r.ok THEN "ok" ELSE "err", val |-> r.val, pos |-> r.pos]

\* The buffer loop of Decode; left is the number of buffers still to read,
\* negative for a count of 2^31 or more, which no input is long enough for.
RECURSIVE DecodeBuffers(_, _, _, _)
DecodeBuffers(bs, pos, left, intSize) ==
    IF left = 0 THEN [kind |-> "ok", buffers |-> <<>>, pos |-> pos]
    ELSE LET b == readBytes(bs, pos, intSize)
         IN  IF b.kind # "ok" THEN [kind |-> b.kind, buffers |-> <<>>, pos |-> pos]
             ELSE LET rest == DecodeBuffers(bs, b.pos, left - 1, intSize)
                  IN  [kind |-> rest.kind, buffers |-> <<b.val>> \o rest.buffers,
                       pos |-> rest.pos]

\* The switch of Decode for the opcode op whose arguments start at pos.
DecodeArgs(bs, pos, op, intSize) ==
    IF op \in NoArgOps THEN [kind |-> "ok", inst |-> OpInst(op), pos |-> pos]
    ELSE IF op \in StringOps
         THEN LET s == readString(bs, pos, intSize)
              IN  [kind |-> s.kind, inst |-> StrInst(op, s.val), pos |-> s.pos]
    ELSE IF op \in FloatOps
         THEN LET f == readFixed(bs, pos, 8)
              IN  [kind |-> f.kind, inst |-> IF f.kind = "ok" THEN FloatInst(op, f.val)
                                              ELSE OpInst(op), pos |-> f.pos]
    ELSE IF op \in IntOps
         THEN LET n == readFixed(bs, pos, 4)
              IN  [kind |-> n.kind, inst |-> IF n.kind = "ok" THEN IntInst(op, Int32(n.val))
                                              ELSE OpInst(op), pos |-> n.pos]
    ELSE IF op \in JSONOps
         THEN LET j == readBytes(bs, pos, intSize)
              IN  [kind |-> j.kind, inst |-> JSONInst(op, j.val), pos |-> j.pos]
    ELSE IF op \in RefOps
         THEN LET r == readFixed(bs, pos, 4)
              IN  [kind |-> r.kind, inst |-> IF r.kind = "ok" THEN RefInst(op, Uint32(r.val))
                                              ELSE OpInst(op), pos |-> r.pos]
    ELSE IF op = "SET_META"
         THEN LET k == readString(bs, pos, intSize)
              IN  IF k.kind # "ok" THEN [kind |-> k.kind, inst |-> OpInst(op), pos |-> pos]
                  ELSE LET v == readString(bs, k.pos, intSize)
                       IN  [kind |-> v.kind, inst |-> KeyValInst(op, k.val, v.val),
                            pos |-> v.pos]
    ELSE IF op = "EXT_DATA"
         THEN LET k == readString(bs, pos, intSize)
              IN  IF k.kind # "ok" THEN [kind |-> k.kind, inst |-> OpInst(op), pos |-> pos]
                  ELSE LET j == readBytes(bs, k.pos, intSize)
                       IN  [kind |-> j.kind, inst |-> KeyJSONInst(op, k.val, j.val),
                            pos |-> j.pos]
    ELSE [kind |-> "err", inst |-> OpInst(op), pos |-> pos]

\* The instruction loop of Decode: io.EOF on the opcode byte ends it.
RECURSIVE DecodeCode(_, _, _)
DecodeCode(bs, pos, intSize) ==
    IF pos > Len(bs) THEN [kind |-> "ok", code |-> <<>>]
    ELSE LET a == DecodeArgs(bs, pos + 1, OpOfByte(bs[pos]), intSize)
         IN  IF a.kind # "ok" THEN [kind |-> a.kind, code |-> <<>>]
             ELSE LET rest == DecodeCode(bs, a.pos, intSize)
                  IN  [kind |-> rest.kind, code |-> <<a.inst>> \o rest.code]

NoProgram(kind) == [kind |-> kind, code |-> <<>>, buffers |-> <<>>]

\* Decode(r) on a build whose int has intSize bits: kind "ok" with the
\* Program, "err" for a returned error, "panic" for a run-time panic.
Decode(bs, intSize) ==
    LET header == ReadFull(bs, 1, 5)
    IN  IF ~header.ok THEN NoProgram("err")
        ELSE IF SubSeq(header.val, 1, 4) # binaryMagic THEN NoProgram("err")
        ELSE IF header.val[5] # binaryVersion THEN NoProgram("err")
        ELSE LET n == readFixed(bs, 6, 4)
             IN  IF n.kind # "ok" THEN NoProgram("err")
                 ELSE LET b == DecodeBuffers(bs, n.pos,
                                   IF n.val[4] >= 128 THEN -1 ELSE Uint32(n.val), intSize)
                      IN  IF b.kind # "ok" THEN NoProgram(b.kind)
                          ELSE LET c == DecodeCode(bs, b.pos, intSize)
                               IN  IF c.kind # "ok" THEN NoProgram(c.kind)
                                   ELSE [kind |-> "ok", code |-> c.code,
                                         buffers |-> b.buffers]

\* Programs with one instruction of every argument class, the reasoning
\* opcodes among them, and side-buffers with and without bytes.
Float07 == <<102, 102, 102, 102, 102, 102, 230, 63>>

BinaryInsts ==
    {OpInst("MSG_START"), StrInst("TXT_CHUNK", <<97>>), StrInst("RESP_ID", <<>>),
     FloatInst("SET_TEMP", Float07), IntInst("SET_MAX", 5), IntInst("SET_MAX", -1),
     JSONInst("CALL_ARGS", <<123, 125>>), RefInst("IMG_REF", 1),
     KeyValInst("SET_META", <<107>>, <<118>>),
     KeyJSONInst("EXT_DATA", <<107>>, <<123, 125>>),
     OpInst("THINK_START"), StrInst("THINK_CHUNK", <<97>>), OpInst("THINK_END"),
     RefInst("THINK_REF", 0), JSONInst("SET_THINK", <<123, 125>>),
     StrInst("STREAM_THINK_DELTA", <<97>>)}

BufferSets == {<<>>, << <<1, 2>> >>, << <<>>, <<255>> >>}

BinaryPrograms ==
    {Prog(code, bufs) : code \in SeqsUpTo(BinaryInsts, MaxCodeLen), bufs \in BufferSets}

\* Bytes an attacker writes over one byte of an encoding; 127 is no opcode.
BadBytes == {0, 2, 127}

\* Inputs whose length prefix claims 2^32 - 1 bytes: as the first buffer and
\* as the string of a TXT_CHUNK.
OversizedInputs ==
    {binaryMagic \o <<binaryVersion>> \o PutUint32(1) \o <<255, 255, 255, 255>>,
     binaryMagic \o <<binaryVersion>> \o PutUint32(0) \o <<OpByte["TXT_CHUNK"]>>
        \o <<255, 255, 255, 255>>}

\* No stream is open while the library is exercised.
IdleConverter ==
    /\ NewStreamConverter(StyleChatCompletions)
    /\ FreshHistory
    /\ record = "none"
    /\ NoCalls

InitBinary ==
    /\ IdleConverter
    /\ libOp = "none"
    /\ \E p \in BinaryPrograms, n \in IntSizes : libArg = [p |-> p, intSize |-> n]
    /\ libRes = <<>>
    /\ heap = <<>>
    /\ progs = <<>>

\* p.Encode(&buf)
EncodeProgram ==
    /\ libOp = "none"
    /\ libOp' = "Encode"
    /\ libRes' = Encode(libArg.p)
    /\ UNCHANGED <<libArg, heap, progs, streamVars>>

DecodeBytes(name, bs) ==
    /\ libOp' = name
    /\ libRes' = [in |-> bs, out |-> Decode(bs, libArg.intSize)]
    /\ UNCHANGED <<libArg, heap, progs, streamVars>>

\* Decode(&buf) of what Encode wrote.
DecodeEncoded ==
    /\ libOp = "Encode"
    /\ ~libRes.err
    /\ DecodeBytes("Decode", libRes.bytes)

\* Decode of an encoding cut short.
DecodeTruncated ==
    /\ libOp = "Encode"
    /\ ~libRes.err
    /\ \E n \in 0..(Len(libRes.bytes) - 1) :
          DecodeBytes("DecodeTruncated", SubSeq(libRes.bytes, 1, n))

\* Decode of an encoding with one byte overwritten.
DecodeSubstituted ==
    /\ libOp = "Encode"
    /\ ~libRes.err
    /\ \E i \in 1..Len(libRes.bytes), b \in BadBytes :
          /\ libRes.bytes[i] # b
          /\ DecodeBytes("DecodeSubstituted", [libRes.bytes EXCEPT ![i] = b])

\* Decode of an input with an oversized length prefix.
DecodeOversized ==
    /\ libOp = "none"
    /\ \E bs \in OversizedInputs : DecodeBytes("DecodeOversized", bs)

NextBinary ==
    EncodeProgram \/ DecodeEncoded \/ DecodeTruncated \/ DecodeSubstituted
       \/ DecodeOversized

SpecBinary == InitBinary /\ [][NextBinary]_vars

\* C12: Encode succeeds on every Program and Decode gives the Program back,
\* code and buffers byte for byte.
C12_BinaryRoundTrip ==
    /\ libOp = "Encode" => ~libRes.err
    /\ libOp = "Decode" =>
          /\ libRes.out.kind = "ok"
          /\ libRes.out.code = libArg.p.Code
          /\ libRes.out.buffers = libArg.p.Buffers

\* C19: Decode returns a Program or an error on every input, and an error on
\* a truncated header, buffer or argument, bad magic, a version other than 1
\* and an unknown opcode.
C19_DecodeNeverPanics ==
    libOp \in {"Decode", "DecodeTruncated", "DecodeSubstituted", "DecodeOversized"} =>
       libRes.out.kind \in {"ok", "err"}

\* ----------------------------------------------------- disasm.go and asm.go
\* Text is its sequence of bytes: 10 is "\n", 32 " ", 60 "<", 62 ">", 59 ";".
opcodeNames ==
    [MSG_START |-> <<77, 83, 71, 95, 83, 84, 65, 82, 84>>,
     MSG_END |-> <<77, 83, 71, 95, 69, 78, 68>>,
     ROLE_SYS |-> <<82, 79, 76, 69, 95, 83, 89, 83>>,
     ROLE_USR |-> <<82, 79, 76, 69, 95, 85, 83, 82>>,
     ROLE_AST |-> <<82, 79, 76, 69, 95, 65, 83, 84>>,
     ROLE_TOOL |-> <<82, 79, 76, 69, 95, 84, 79, 79, 76>>,
     TXT_CHUNK |-> <<84, 88, 84, 95, 67, 72, 85, 78, 75>>,
     IMG_REF |-> <<73, 77, 71, 95, 82, 69, 70>>,
     AUD_REF |-> <<65, 85, 68, 95, 82, 69, 70>>,
     TXT_REF |-> <<84, 88, 84, 95, 82, 69, 70>>,
     THINK_START |-> <<84, 72, 73, 78, 75, 95, 83, 84, 65, 82, 84>>,
     THINK_CHUNK |-> <<84, 72, 73, 78, 75, 95, 67, 72, 85, 78, 75>>,
     THINK_END |-> <<84, 72, 73, 78, 75, 95, 69, 78, 68>>,
     THINK_REF |-> <<84, 72, 73, 78, 75, 95, 82, 69, 70>>,
     DEF_START |-> <<68, 69, 70, 95, 83, 84, 65, 82, 84>>,
     DEF_NAME |-> <<68, 69, 70, 95, 78, 65, 77, 69>>,
     DEF_DESC |-> <<68, 69, 70, 95, 68, 69, 83, 67>>,
     DEF_SCHEMA |-> <<68, 69, 70, 95, 83, 67, 72, 69, 77, 65>>,
     DEF_END |-> <<68, 69, 70, 95, 69, 78, 68>>,
     CALL_START |-> <<67, 65, 76, 76, 95, 83, 84, 65, 82, 84>>,
     CALL_NAME |-> <<67, 65, 76, 76, 95, 78, 65, 77, 69>>,
     CALL_ARGS |-> <<67, 65, 76, 76, 95, 65, 82, 71, 83>>,
     CALL_END |-> <<67, 65, 76, 76, 95, 69, 78, 68>>,
     RESULT_START |-> <<82, 69, 83, 85, 76, 84, 95, 83, 84, 65, 82, 84>>,
     RESULT_DATA |-> <<82, 69, 83, 85, 76, 84, 95, 68, 65, 84, 65>>,
     RESULT_END |-> <<82, 69, 83, 85, 76, 84, 95, 69, 78, 68>>,
     RESP_ID |-> <<82, 69, 83, 80, 95, 73, 68>>,
     RESP_MODEL |-> <<82, 69, 83, 80, 95, 77, 79, 68, 69, 76>>,
     RESP_DONE |-> <<82, 69, 83, 80, 95, 68, 79, 78, 69>>,
     USAGE |-> <<85, 83, 65, 71, 69>>,
     STREAM_START |-> <<83, 84, 82, 69, 65, 77, 95, 83, 84, 65, 82, 84>>,
     STREAM_DELTA |-> <<83, 84, 82, 69, 65, 77, 95, 68, 69, 76, 84, 65>>,
     STREAM_TOOL_DELTA |-> <<83, 84, 82, 69, 65, 77, 95, 84, 79, 79, 76, 95, 68, 69, 76, 84, 65>>,
     STREAM_END |-> <<83, 84, 82, 69, 65, 77, 95, 69, 78, 68>>,
     STREAM_THINK_DELTA |-> <<83, 84, 82, 69, 65, 77, 95, 84, 72, 73, 78, 75, 95, 68, 69, 76, 84, 65>>,
     SET_MODEL |-> <<83, 69, 84, 95, 77, 79, 68, 69, 76>>,
     SET_TEMP |-> <<83, 69, 84, 95, 84, 69, 77, 80>>,
     SET_TOPP |-> <<83, 69, 84, 95, 84, 79, 80, 80>>,
     SET_STOP |-> <<83, 69, 84, 95, 83, 84, 79, 80>>,
     SET_MAX |-> <<83, 69, 84, 95, 77, 65, 88>>,
     SET_STREAM |-> <<83, 69, 84, 95, 83, 84, 82, 69, 65, 77>>,
     SET_THINK |-> <<83, 69, 84, 95, 84, 72, 73, 78, 75>>,
     EXT_DATA |-> <<69, 88, 84, 95, 68, 65, 84, 65>>,
     SET_META |-> <<83, 69, 84, 95, 77, 69, 84, 65>>]

\* nameToOpcode[name], "UNKNOWN" for a name that is no mnemonic.
nameToOpcode(name) ==
    IF \E op \in Opcodes : opcodeNames[op] = name
    THEN CHOOSE op \in Opcodes : opcodeNames[op] = name
    ELSE "UNKNOWN"

\* The argument shapes of Disasm's switch and of Asm's tables.
stringArgOps == StringOps \cup {"THINK_CHUNK", "STREAM_THINK_DELTA"}
floatArgOps == FloatOps
intArgOps == IntOps
jsonArgOps == JSONOps \cup {"SET_THINK"}
refArgOps == RefOps \cup {"THINK_REF"}
EndOps == {"MSG_END", "DEF_END", "CALL_END", "RESULT_END", "STREAM_END", "THINK_END"}
StartOps ==
    {"MSG_START", "DEF_START", "CALL_START", "RESULT_START", "STREAM_START",
     "THINK_START"}

Contains(s, b) == \E i \in 1..Len(s) : s[i] = b

\* fmt.Sprintf("%d", n)
RECURSIVE Digits(_)
Digits(n) == IF n < 10 THEN <<48 + n>> ELSE Digits(n \div 10) \o <<48 + (n % 10)>>
FormatInt(n) == IF n < 0 THEN <<45>> \o Digits(0 - n) ELSE Digits(n)

\* Floats the model uses with what fmt.Sprintf("%.4f") prints for them and
\* what strconv.ParseFloat reads back from that.
Float012345 == <<124, 242, 176, 80, 107, 154, 191, 63>>
Float01235 == <<4, 86, 14, 45, 178, 157, 191, 63>>
FormatFloat4(f) ==
    IF f = Float07 THEN <<48, 46, 55, 48, 48, 48>>
    ELSE IF f = Float012345 \/ f = Float01235 THEN <<48, 46, 49, 50, 51, 53>>
    ELSE <<48, 46, 48, 48, 48, 48>>
ParseFloat(s) ==
    IF s = <<48, 46, 55, 48, 48, 48>> THEN [ok |-> TRUE, val |-> Float07]
    ELSE IF s = <<48, 46, 49, 50, 51, 53>> THEN [ok |-> TRUE, val |-> Float01235]
    ELSE IF s = <<48, 46, 48, 48, 48, 48>> THEN [ok |-> TRUE, val |-> ZeroFloat]
    ELSE [ok |-> FALSE, val |-> ZeroFloat]

\* base64.StdEncoding: the alphabet and EncodeToString, "=" padded.
B64Char(v) ==
    IF v < 26 THEN 65 + v
    ELSE IF v < 52 THEN 97 + (v - 26)
    ELSE IF v < 62 THEN 48 + (v - 52)
    ELSE IF v = 62 THEN 43 ELSE 47

RECURSIVE EncodeToString(_)
EncodeToString(b) ==
    IF Len(b) = 0 THEN <<>>
    ELSE IF Len(b) = 1
         THEN <<B64Char(b[1] \div 4), B64Char((b[1] % 4) * 16), 61, 61>>
    ELSE IF Len(b) = 2
         THEN <<B64Char(b[1] \div 4), B64Char((b[1] % 4) * 16 + b[2] \div 16),
                B64Char((b[2] % 16) * 4), 61>>
    ELSE <<B64Char(b[1] \div 4), B64Char((b[1] % 4) * 16 + b[2] \div 16),
           B64Char((b[2] % 16) * 4 + b[3] \div 64), B64Char(b[3] % 64)>>
            \o EncodeToString(SubSeq(b, 4, Len(b)))

\* json.Compact of a JSON text without string literals: the insignificant
\* whitespace goes.
IsSpace(b) == b \in {9, 10, 11, 12, 13, 32}
RECURSIVE Compact(_)
Compact(j) ==
    IF Len(j) = 0 THEN <<>>
    ELSE (IF IsSpace(j[1]) THEN <<>> ELSE <<j[1]>>) \o Compact(Tail(j))

\* json.Valid for the texts the model uses: "{}", "[]" and "1", with or
\* without whitespace around the tokens.
Valid(j) == Compact(j) \in {<<123, 125>>, <<91, 93>>, <<49>>}

\* writeStr of Disasm: a heredoc block when the value holds a newline.
writeStr(s) ==
    IF Contains(s, 10) THEN <<32, 60, 60, 60, 10>> \o s \o <<10, 62, 62, 62>>
    ELSE <<32>> \o s

\* writeJSON of Disasm: compacted, as it is when json.Compact fails.
writeJSON(j) == <<32>> \o (IF Valid(j) THEN Compact(j) ELSE j)

\* The switch of Disasm: the text after the mnemonic.
DisasmArgs(inst) ==
    IF inst.Op \in stringArgOps THEN writeStr(inst.Str)
    ELSE IF inst.Op \in floatArgOps THEN <<32>> \o FormatFloat4(inst.Num)
    ELSE IF inst.Op \in intArgOps THEN <<32>> \o FormatInt(inst.Int)
    ELSE IF inst.Op \in refArgOps THEN <<32, 114, 101, 102, 58>> \o FormatInt(inst.Ref)
    ELSE IF inst.Op \in jsonArgOps THEN writeJSON(inst.JSON)
    ELSE IF inst.Op = "SET_META" THEN <<32>> \o inst.Key \o <<32>> \o inst.Str
    ELSE IF inst.Op = "EXT_DATA" THEN <<32>> \o inst.Key \o writeJSON(inst.JSON)
    ELSE <<>>

RECURSIVE Indent(_)
Indent(n) == IF n <= 0 THEN <<>> ELSE <<32, 32>> \o Indent(n - 1)

\* The instruction loop of Disasm.
RECURSIVE DisasmCode(_, _, _)
DisasmCode(code, i, indent) ==
    IF i > Len(code) THEN <<>>
    ELSE LET op == code[i].Op
             at == IF op \in EndOps THEN (IF indent - 1 < 0 THEN 0 ELSE indent - 1)
                   ELSE indent
         IN  Indent(at) \o opcodeNames[op] \o DisasmArgs(code[i]) \o <<10>>
                \o DisasmCode(code, i + 1, IF op \in StartOps THEN at + 1 ELSE at)

\* The ".ref N <base64>" lines of Disasm.
RECURSIVE DisasmBuffers(_, _)
DisasmBuffers(buffers, i) ==
    IF i > Len(buffers) THEN <<>>
    ELSE <<46, 114, 101, 102, 32>> \o FormatInt(i - 1) \o <<32>>
            \o EncodeToString(buffers[i]) \o <<10>> \o DisasmBuffers(buffers, i + 1)

\* Program.Disasm
Disasm(p) ==
    (IF Len(p.Buffers) > 0 THEN DisasmBuffers(p.Buffers, 1) \o <<10>> ELSE <<>>)
       \o DisasmCode(p.Code, 1, 0)

\* strings.Split(text, "\n")
RECURSIVE Split(_)
Split(text) ==
    IF ~Contains(text, 10) THEN <<text>>
    ELSE LET k == CHOOSE i \in 1..Len(text) :
                      text[i] = 10 /\ \A m \in 1..(i - 1) : text[m] # 10
         IN  <<SubSeq(text, 1, k - 1)>> \o Split(SubSeq(text, k + 1, Len(text)))

\* strings.Join(parts, "\n")
RECURSIVE Join(_)
Join(parts) ==
    IF Len(parts) = 0 THEN <<>>
    ELSE IF Len(parts) = 1 THEN parts[1]
    ELSE parts[1] \o <<10>> \o Join(Tail(parts))

\* strings.TrimSpace
RECURSIVE TrimLeft(_)
TrimLeft(s) == IF Len(s) > 0 /\ IsSpace(s[1]) THEN TrimLeft(Tail(s)) ELSE s
RECURSIVE TrimRight(_)
TrimRight(s) ==
    IF Len(s) > 0 /\ IsSpace(s[Len(s)]) THEN TrimRight(SubSeq(s, 1, Len(s) - 1)) ELSE s
TrimSpace(s) == TrimRight(TrimLeft(s))

HasPrefix(s, prefix) == Len(s) >= Len(prefix) /\ SubSeq(s, 1, Len(prefix)) = prefix

\* splitFirst: around the first space; the rest is empty when there is none.
splitFirst(s) ==
    IF ~Contains(s, 32) THEN [first |-> s, rest |-> <<>>]
    ELSE LET k == CHOOSE i \in 1..Len(s) : s[i] = 32 /\ \A m \in 1..(i - 1) : s[m] # 32
         IN  [first |-> SubSeq(s, 1, k - 1), rest |-> SubSeq(s, k + 1, Len(s))]

\* strconv.ParseUint(s, 10, 32) and strconv.ParseInt(s, 10, 32) for the
\* numbers of the model (below 2^31).
RECURSIVE DigitsValue(_)
DigitsValue(s) ==
    IF Len(s) = 0 THEN 0 ELSE 10 * DigitsValue(SubSeq(s, 1, Len(s) - 1)) + (s[Len(s)] - 48)
ParseUint(s) ==
    IF Len(s) > 0 /\ Len(s) <= 9 /\ \A i \in 1..Len(s) : s[i] \in 48..57
    THEN [ok |-> TRUE, val |-> DigitsValue(s)]
    ELSE [ok |-> FALSE, val |-> 0]
ParseInt(s) ==
    IF Len(s) > 0 /\ s[1] \in {43, 45}
    THEN LET u == ParseUint(Tail(s))
         IN  [ok |-> u.ok, val |-> IF s[1] = 45 THEN 0 - u.val ELSE u.val]
    ELSE ParseUint(s)

\* base64.StdEncoding.DecodeString
IsB64Char(c) == c \in (65..90) \cup (97..122) \cup (48..57) \cup {43, 47}
B64Val(c) ==
    IF c \in 65..90 THEN c - 65
    ELSE IF c \in 97..122 THEN c - 97 + 26
    ELSE IF c \in 48..57 THEN c - 48 + 52
    ELSE IF c = 43 THEN 62 ELSE 63

RECURSIVE DecodeString(_)
DecodeString(s) ==
    IF Len(s) = 0 THEN [ok |-> TRUE, val |-> <<>>]
    ELSE IF Len(s) < 4 \/ ~IsB64Char(s[1]) \/ ~IsB64Char(s[2])
         THEN [ok |-> FALSE, val |-> <<>>]
    ELSE LET v1 == B64Val(s[1])
             v2 == B64Val(s[2])
             b1 == v1 * 4 + v2 \div 16
         IN  IF s[3] = 61
             THEN [ok |-> Len(s) = 4 /\ s[4] = 61, val |-> <<b1>>]
             ELSE IF ~IsB64Char(s[3]) THEN [ok |-> FALSE, val |-> <<>>]
             ELSE LET v3 == B64Val(s[3])
                      b2 == (v2 % 16) * 16 + v3 \div 4
                  IN  IF s[4] = 61 THEN [ok |-> Len(s) = 4, val |-> <<b1, b2>>]
                      ELSE IF ~IsB64Char(s[4]) THEN [ok |-> FALSE, val |-> <<>>]
                      ELSE LET rest == DecodeString(SubSeq(s, 5, Len(s)))
                           IN  [ok |-> rest.ok,
                                val |-> <<b1, b2, (v3 % 4) * 64 + B64Val(s[4])>>
                                           \o rest.val]

\* collectHeredoc(i): the lines after line i up to the first line that
\* trims to ">>>", joined; ok is FALSE when no such line follows.
collectHeredoc(lines, i) ==
    IF \E j \in (i + 1)..Len(lines) : TrimSpace(lines[j]) = <<62, 62, 62>>
    THEN LET j == CHOOSE k \in (i + 1)..Len(lines) :
                     /\ TrimSpace(lines[k]) = <<62, 62, 62>>
                     /\ \A m \in (i + 1)..(k - 1) : TrimSpace(lines[m]) # <<62, 62, 62>>
         IN  [ok |-> TRUE, val |-> Join(SubSeq(lines, i + 1, j - 1)), at |-> j]
    ELSE [ok |-> FALSE, val |-> <<>>, at |-> i]

\* compactJSON of Asm: unchanged when json.Compact fails.
compactJSON(raw) == IF Valid(raw) THEN Compact(raw) ELSE raw

\* parseRef: "ref:N"
parseRef(rest) ==
    LET r == TrimSpace(rest)
    IN  IF ~HasPrefix(r, <<114, 101, 102, 58>>) THEN [ok |-> FALSE, val |-> 0]
        ELSE ParseUint(SubSeq(r, 5, Len(r)))

\* strings.SplitN(s, " ", 2)
SplitN2(s) ==
    LET f == splitFirst(s)
    IN  IF Contains(s, 32) THEN <<f.first, f.rest>> ELSE <<s>>

\* The ".ref" branch of Asm: Buffers grows with nil up to idx, then
\* Buffers[idx] = data.
RECURSIVE GrowBuffers(_, _)
GrowBuffers(buffers, idx) ==
    IF Len(buffers) > idx THEN buffers ELSE GrowBuffers(Append(buffers, <<>>), idx)

AsmError == [err |-> TRUE, code |-> <<>>, buffers |-> <<>>]

\* One instruction line of Asm: ok, the instruction and the line it ends on.
AsmInst(lines, i, op, rest) ==
    IF op \in stringArgOps
    THEN IF TrimSpace(rest) = <<60, 60, 60>>
         THEN LET h == collectHeredoc(lines, i)
              IN  [ok |-> h.ok, inst |-> StrInst(op, h.val), at |-> h.at]
         ELSE [ok |-> TRUE, inst |-> StrInst(op, rest), at |-> i]
    ELSE IF op \in floatArgOps
    THEN LET f == ParseFloat(TrimSpace(rest))
         IN  [ok |-> f.ok, inst |-> FloatInst(op, f.val), at |-> i]
    ELSE IF op \in intArgOps
    THEN LET n == ParseInt(TrimSpace(rest))
         IN  [ok |-> n.ok, inst |-> IntInst(op, n.val), at |-> i]
    ELSE IF op \in jsonArgOps
    THEN LET h == IF TrimSpace(rest) = <<60, 60, 60>>
                  THEN collectHeredoc(lines, i)
                  ELSE [ok |-> TRUE, val |-> rest, at |-> i]
             j == compactJSON(TrimSpace(h.val))
         IN  [ok |-> h.ok /\ Valid(j), inst |-> JSONInst(op, j), at |-> h.at]
    ELSE IF op \in refArgOps
    THEN LET r == parseRef(rest)
         IN  [ok |-> r.ok, inst |-> RefInst(op, r.val), at |-> i]
    ELSE IF op = "SET_META"
    THEN LET kv == splitFirst(rest)
         IN  [ok |-> kv.first # <<>>, inst |-> KeyValInst(op, kv.first, kv.rest), at |-> i]
    ELSE IF op = "EXT_DATA"
    THEN LET kv == splitFirst(rest)
             h == IF TrimSpace(kv.rest) = <<60, 60, 60>>
                  THEN collectHeredoc(lines, i)
                  ELSE [ok |-> TRUE, val |-> kv.rest, at |-> i]
             body == IF h.at = i THEN h.val ELSE TrimSpace(h.val)
             j == compactJSON(body)
         IN  [ok |-> kv.first # <<>> /\ h.ok /\ body # <<>> /\ Valid(j),
              inst |-> KeyJSONInst(op, kv.first, j), at |-> h.at]
    ELSE [ok |-> TRUE, inst |-> OpInst(op), at |-> i]

\* The line loop of Asm from line i on.
RECURSIVE AsmLines(_, _, _, _)
AsmLines(lines, i, code, buffers) ==
    IF i > Len(lines) THEN [err |-> FALSE, code |-> code, buffers |-> buffers]
    ELSE LET line == TrimSpace(lines[i])
         IN  IF line = <<>> \/ HasPrefix(line, <<59>>)
             THEN AsmLines(lines, i + 1, code, buffers)
             ELSE IF HasPrefix(line, <<46, 114, 101, 102, 32>>)
             THEN LET parts == SplitN2(SubSeq(line, 6, Len(line)))
                  IN  IF Len(parts) # 2 THEN AsmError
                      ELSE LET idx == ParseUint(TrimSpace(parts[1]))
                               data == DecodeString(TrimSpace(parts[2]))
                           IN  IF ~idx.ok \/ ~data.ok THEN AsmError
                               ELSE AsmLines(lines, i + 1, code,
                                       [GrowBuffers(buffers, idx.val)
                                           EXCEPT ![idx.val + 1] = data.val])
             ELSE LET f == splitFirst(line)
                      op == nameToOpcode(f.first)
                  IN  IF op = "UNKNOWN" THEN AsmError
                      ELSE LET a == AsmInst(lines, i, op, f.rest)
                           IN  IF ~a.ok THEN AsmError
                               ELSE AsmLines(lines, a.at + 1, Append(code, a.inst),
                                             buffers)

\* Asm(text)
Asm(text) == AsmLines(Split(text), 1, <<>>, <<>>)

\* Strings with and without spaces, newlines and heredoc markers: "", "a",
\* "a ", " a", "a\nb", "\n", "<<<" and "a\n>>>\nb".
TextStrings ==
    {<<>>, <<97>>, <<97, 32>>, <<32, 97>>, <<97, 10, 98>>, <<10>>, <<60, 60, 60>>,
     <<97, 10, 62, 62, 62, 10, 98>>}

TextInsts ==
    {StrInst("STREAM_DELTA", s) : s \in TextStrings}
       \cup {OpInst("MSG_START"), OpInst("MSG_END"), StrInst("CALL_START", <<99>>),
             FloatInst("SET_TEMP", Float07), FloatInst("SET_TOPP", Float012345),
             IntInst("SET_MAX", 5), IntInst("SET_MAX", -1),
             JSONInst("CALL_ARGS", <<123, 125>>), RefInst("IMG_REF", 1),
             RefInst("THINK_REF", 0), KeyValInst("SET_META", <<107>>, <<118>>),
             KeyJSONInst("EXT_DATA", <<107>>, <<123, 125>>)}

TextPrograms ==
    {Prog(code, bufs) : code \in SeqsUpTo(TextInsts, MaxCodeLen), bufs \in BufferSets}

InitText ==
    /\ IdleConverter
    /\ libOp = "none"
    /\ \E p \in TextPrograms : libArg = [p |-> p]
    /\ libRes = <<>>
    /\ heap = <<>>
    /\ progs = <<>>

\* text := p.Disasm()
DisasmProgram ==
    /\ libOp = "none"
    /\ libOp' = "Disasm"
    /\ libRes' = [text |-> Disasm(libArg.p)]
    /\ UNCHANGED <<libArg, heap, progs, streamVars>>

\* q, err := Asm(text)
AsmText ==
    /\ libOp = "Disasm"
    /\ libOp' = "Asm"
    /\ libRes' = [text |-> libRes.text, out |-> Asm(libRes.text)]
    /\ UNCHANGED <<libArg, heap, progs, streamVars>>

\* q.Encode and p.Encode, to compare the two at the binary level.
EncodeAssembled ==
    /\ libOp = "Asm"
    /\ ~libRes.out.err
    /\ libOp' = "EncodeAssembled"
    /\ libRes' = [text |-> libRes.text, out |-> libRes.out,
                  enc |-> Encode(Prog(libRes.out.code, libRes.out.buffers)),
                  want |-> Encode(libArg.p)]
    /\ UNCHANGED <<libArg, heap, progs, streamVars>>

NextText == DisasmProgram \/ AsmText \/ EncodeAssembled

SpecText == InitText /\ [][NextText]_vars

\* C13: Asm(Disasm(P)) succeeds and encodes to the bytes P encodes to, and a
\* string with a newline comes back from its heredoc block as it was.
C13_TextRoundTrip ==
    /\ libOp = "Asm" =>
          /\ ~libRes.out.err
          /\ \A i \in 1..Len(libArg.p.Code) :
                (libArg.p.Code[i].Op \in stringArgOps /\ Contains(libArg.p.Code[i].Str, 10))
                   => /\ i <= Len(libRes.out.code)
                      /\ libRes.out.code[i].Str = libArg.p.Code[i].Str
    /\ libOp = "EncodeAssembled" => libRes.enc = libRes.want

\* --------------------------------------------------------------- program.go
\* The instructions Append gives the result for other's code: the switch
\* shifts the Ref of IMG_REF, AUD_REF and TXT_REF by bufOffset.
ShiftRefs(code, bufOffset) ==
    [i \in 1..Len(code) |->
        IF code[i].Op \in {"IMG_REF", "AUD_REF", "TXT_REF"}
        THEN [code[i] EXCEPT !.Ref = code[i].Ref + bufOffset]
        ELSE code[i]]

\* p.Append(other) as a value: the code and the buffers of the result.
ProgramAppend(p, other) ==
    Prog(p.Code \o ShiftRefs(other.Code, Len(p.Buffers)), p.Buffers \o other.Buffers)

\* Programs that refer to side-buffers.
RefInsts ==
    {RefInst("IMG_REF", 0), RefInst("AUD_REF", 0), RefInst("TXT_REF", 1),
     RefInst("THINK_REF", 0), StrInst("TXT_CHUNK", <<97>>)}

RefPrograms ==
    {Prog(code, bufs) : code \in SeqsUpTo(RefInsts, MaxCodeLen), bufs \in BufferSets}

InitAppend ==
    /\ IdleConverter
    /\ libOp = "none"
    /\ \E a \in RefPrograms, b \in RefPrograms : libArg = [a |-> a, b |-> b]
    /\ libRes = <<>>
    /\ heap = <<>>
    /\ progs = <<>>

\* result := a.Append(b)
AppendPrograms ==
    /\ libOp = "none"
    /\ libOp' = "Append"
    /\ libRes' = ProgramAppend(libArg.a, libArg.b)
    /\ UNCHANGED <<libArg, heap, progs, streamVars>>

NextAppend == AppendPrograms

SpecAppend == InitAppend /\ [][NextAppend]_vars

\* C14: in a.Append(b) every IMG_REF, AUD_REF, TXT_REF and THINK_REF of b has
\* its ref raised by the number of buffers of a, and those of a keep theirs.
C14_AppendShiftsRefs ==
    libOp = "Append" =>
       /\ Len(libRes.Code) = Len(libArg.a.Code) + Len(libArg.b.Code)
       /\ \A i \in 1..Len(libArg.a.Code) : libRes.Code[i] = libArg.a.Code[i]
       /\ \A i \in 1..Len(libArg.b.Code) :
             libArg.b.Code[i].Op \in {"IMG_REF", "AUD_REF", "TXT_REF", "THINK_REF"} =>
                libRes.Code[Len(libArg.a.Code) + i].Ref
                   = libArg.b.Code[i].Ref + Len(libArg.a.Buffers)

\* -------------------------------------------------------------- ailmanip.go
\* Indices into Program.Code count from 0, as in the source; code[i + 1] is
\* the instruction at index i.
RoleOps == {"ROLE_SYS", "ROLE_USR", "ROLE_AST", "ROLE_TOOL"}

MessageSpan(start, end, role) == [Start |-> start, End |-> end, Role |-> role]

\* Program.Messages from index i on: each MSG_START with the first MSG_END
\* after it and the first role opcode in between ("" when there is none);
\* the scan goes on after that MSG_END.  A MSG_START without a MSG_END gives
\* no span.
RECURSIVE MessagesFrom(_, _)
MessagesFrom(code, i) ==
    IF i >= Len(code) THEN <<>>
    ELSE IF code[i + 1].Op # "MSG_START" THEN MessagesFrom(code, i + 1)
    ELSE IF ~\E j \in (i + 1)..(Len(code) - 1) : code[j + 1].Op = "MSG_END"
         THEN MessagesFrom(code, i + 1)
    ELSE LET end == CHOOSE j \in (i + 1)..(Len(code) - 1) :
                       /\ code[j + 1].Op = "MSG_END"
                       /\ \A m \in (i + 1)..(j - 1) : code[m + 1].Op # "MSG_END"
             roles == {j \in (i + 1)..(end - 1) : code[j + 1].Op \in RoleOps}
             role == IF roles = {} THEN ""
                     ELSE code[(CHOOSE j \in roles : \A m \in roles : j <= m) + 1].Op
         IN  <<MessageSpan(i, end, role)>> \o MessagesFrom(code, end + 1)

Messages(code) == MessagesFrom(code, 0)

\* Program.SystemPrompts: the leading spans whose role is ROLE_SYS.
RECURSIVE LeadingSystem(_)
LeadingSystem(msgs) ==
    IF Len(msgs) = 0 \/ msgs[1].Role # "ROLE_SYS" THEN <<>>
    ELSE <<msgs[1]>> \o LeadingSystem(Tail(msgs))

SystemPrompts(code) == LeadingSystem(Messages(code))

\* The instructions at the indices in kept, from index i on, in order.
RECURSIVE Pick(_, _, _)
Pick(code, i, kept) ==
    IF i >= Len(code) THEN <<>>
    ELSE (IF i \in kept THEN <<code[i + 1]>> ELSE <<>>) \o Pick(code, i + 1, kept)

Indices(code) == 0..(Len(code) - 1)

InSpans(spans, i) == \E k \in 1..Len(spans) : spans[k].Start <= i /\ i <= spans[k].End

\* The code of the result of each operation.
\* Slice(start, end): both ends clamped, [start, end] inclusive.
Slice(code, start, end) ==
    LET s == IF start < 0 THEN 0 ELSE start
        e == IF end >= Len(code) THEN Len(code) - 1 ELSE end
    IN  Pick(code, 0, {i \in Indices(code) : s <= i /\ i <= e})

\* RemoveRange(start, end)
RemoveRange(code, start, end) ==
    Pick(code, 0, {i \in Indices(code) : ~(i >= start /\ i <= end)})

\* RemoveMessages(spans...)
RemoveMessages(code, spans) ==
    Pick(code, 0, {i \in Indices(code) : ~InSpans(spans, i)})

\* ReplaceRange(start, end, instructions...): the replacement goes in when
\* the loop reaches index start, so not at all when start is no index.
RECURSIVE ReplaceFrom(_, _, _, _, _)
ReplaceFrom(code, i, start, end, instructions) ==
    IF i >= Len(code) THEN <<>>
    ELSE (IF i = start THEN instructions ELSE <<>>)
            \o (IF i >= start /\ i <= end THEN <<>> ELSE <<code[i + 1]>>)
            \o ReplaceFrom(code, i + 1, start, end, instructions)

ReplaceRange(code, start, end, instructions) ==
    ReplaceFrom(code, 0, start, end, instructions)

\* InsertBefore(index, instructions...)
RECURSIVE InsertBeforeFrom(_, _, _, _)
InsertBeforeFrom(code, i, index, instructions) ==
    IF i >= Len(code) THEN <<>>
    ELSE (IF i = index THEN instructions ELSE <<>>) \o <<code[i + 1]>>
            \o InsertBeforeFrom(code, i + 1, index, instructions)

InsertBefore(code, index, instructions) == InsertBeforeFrom(code, 0, index, instructions)

\* InsertAfter(index, instructions...)
RECURSIVE InsertAfterFrom(_, _, _, _)
InsertAfterFrom(code, i, index, instructions) ==
    IF i >= Len(code) THEN <<>>
    ELSE <<code[i + 1]>> \o (IF i = index THEN instructions ELSE <<>>)
            \o InsertAfterFrom(code, i + 1, index, instructions)

InsertAfter(code, index, instructions) == InsertAfterFrom(code, 0, index, instructions)

\* Fault: the first n messages are kept instead of the last n.
TruncateMessages_KeepFirst(code, n) ==
    LET msgs == Messages(code)
    IN  IF n >= Len(msgs) THEN [kind |-> "ok", code |-> code, clone |-> TRUE]
        ELSE IF n < 0 THEN [kind |-> "panic", code |-> <<>>, clone |-> FALSE]
        ELSE LET keepSet == SubSeq(msgs, 1, n)
                 kept == {i \in Indices(code) :
                            ~(InSpans(msgs, i) /\ ~InSpans(keepSet, i))}
             IN  [kind |-> "ok", code |-> Pick(code, 0, kept), clone |-> FALSE]

\* TruncateMessages(n): p.Clone() when n >= len(msgs); otherwise
\* msgs[len(msgs)-n:], which for a negative n is a slice bound out of range
\* and panics.  clone says that the result came from p.Clone().
TruncateMessages(code, n) ==
    LET msgs == Messages(code)
    IN  IF n >= Len(msgs) THEN [kind |-> "ok", code |-> code, clone |-> TRUE]
        ELSE IF n < 0 THEN [kind |-> "panic", code |-> <<>>, clone |-> FALSE]
        ELSE LET keepSet == SubSeq(msgs, Len(msgs) - n + 1, Len(msgs))
                 kept == {i \in Indices(code) :
                            ~(InSpans(msgs, i) /\ ~InSpans(keepSet, i))}
             IN  [kind |-> "ok", code |-> Pick(code, 0, kept), clone |-> FALSE]

\* The system message PrependSystemPrompt and ReplaceSystemPrompt build.
SystemMessage(text) ==
    <<OpInst("MSG_START"), OpInst("ROLE_SYS"), StrInst("TXT_CHUNK", text),
      OpInst("MSG_END")>>

\* PrependSystemPrompt(text): InsertBefore the first message, or a Clone
\* with the message appended when there is no message.
PrependSystemPrompt(code, text) ==
    LET msgs == Messages(code)
    IN  IF Len(msgs) > 0
        THEN [code |-> InsertBefore(code, msgs[1].Start, SystemMessage(text)),
              clone |-> FALSE]
        ELSE [code |-> code \o SystemMessage(text), clone |-> TRUE]

\* ReplaceSystemPrompt(text)
ReplaceSystemPrompt(code, text) ==
    LET sysMsgs == SystemPrompts(code)
    IN  IF Len(sysMsgs) = 0 THEN PrependSystemPrompt(code, text)
        ELSE [code |-> ReplaceRange(code, sysMsgs[1].Start, sysMsgs[Len(sysMsgs)].End,
                                    SystemMessage(text)),
              clone |-> FALSE]

\* MessageText(span): the TXT_CHUNK strings of the span, concatenated.
RECURSIVE MessageTextFrom(_, _, _)
MessageTextFrom(code, i, end) ==
    IF i > end \/ i >= Len(code) THEN <<>>
    ELSE (IF code[i + 1].Op = "TXT_CHUNK" THEN code[i + 1].Str ELSE <<>>)
            \o MessageTextFrom(code, i + 1, end)

MessageText(code, span) == MessageTextFrom(code, span.Start, span.End)

\* The texts of the leading system messages that are not empty.
RECURSIVE SystemParts(_, _)
SystemParts(code, msgs) ==
    IF Len(msgs) = 0 \/ msgs[1].Role # "ROLE_SYS" THEN <<>>
    ELSE (IF MessageText(code, msgs[1]) # <<>> THEN <<MessageText(code, msgs[1])>> ELSE <<>>)
            \o SystemParts(code, Tail(msgs))

\* strings.Join(parts, "\n\n")
RECURSIVE JoinParts(_)
JoinParts(parts) ==
    IF Len(parts) = 0 THEN <<>>
    ELSE IF Len(parts) = 1 THEN parts[1]
    ELSE parts[1] \o <<10, 10>> \o JoinParts(Tail(parts))

\* SystemPrompt()
SystemPrompt(code) == JoinParts(SystemParts(code, Messages(code)))

\* CountMessages()
CountMessages(code) == Len(Messages(code))

\* AppendUserMessage(text): a Clone with the message emitted onto it.
AppendUserMessage(code, text) ==
    code \o <<OpInst("MSG_START"), OpInst("ROLE_USR"), StrInst("TXT_CHUNK", text),
              OpInst("MSG_END")>>

MaxTruncLen == 5
MaxKeep == 2

\* Code with message delimiters in any arrangement, a role and a setting.
TruncInsts ==
    {OpInst("MSG_START"), OpInst("MSG_END"), OpInst("ROLE_USR"), IntInst("SET_MAX", 5)}

InitTruncate ==
    /\ IdleConverter
    /\ libOp = "none"
    /\ \E code \in SeqsUpTo(TruncInsts, MaxTruncLen), n \in (-1)..MaxKeep :
          libArg = [code |-> code, n |-> n]
    /\ libRes = <<>>
    /\ heap = <<>>
    /\ progs = <<>>

\* q := p.TruncateMessages(n)
Truncate ==
    /\ libOp = "none"
    /\ libOp' = "TruncateMessages"
    /\ libRes' = TruncateMessages(libArg.code, libArg.n)
    /\ UNCHANGED <<libArg, heap, progs, streamVars>>

NextTruncate == Truncate

SpecTruncate == InitTruncate /\ [][NextTruncate]_vars

NonMessage(code) == Pick(code, 0, {i \in Indices(code) : ~InSpans(Messages(code), i)})

MessageBlocks(code) ==
    LET msgs == Messages(code)
    IN  [k \in 1..Len(msgs) |-> SubSeq(code, msgs[k].Start + 1, msgs[k].End + 1)]

LastN(s, n) == IF n >= Len(s) THEN s ELSE SubSeq(s, Len(s) - n + 1, Len(s))

\* sub is code with some instructions left out.
RECURSIVE IsSubsequence(_, _)
IsSubsequence(sub, code) ==
    IF Len(sub) = 0 THEN TRUE
    ELSE IF Len(code) = 0 THEN FALSE
    ELSE IF sub[1] = code[1] THEN IsSubsequence(Tail(sub), Tail(code))
    ELSE IsSubsequence(sub, Tail(code))

\* C18: TruncateMessages(n), n >= 0, keeps the instructions outside message
\* blocks and the last n message blocks, all in their order, and keeps
\* everything when n is at least the number of messages.
C18_TruncateKeepsLastMessages ==
    (libOp = "TruncateMessages" /\ libArg.n >= 0) =>
       /\ libRes.kind = "ok"
       /\ IsSubsequence(libRes.code, libArg.code)
       /\ NonMessage(libRes.code) = NonMessage(libArg.code)
       /\ MessageBlocks(libRes.code) = LastN(MessageBlocks(libArg.code), libArg.n)
       /\ libArg.n >= Len(Messages(libArg.code)) => libRes.code = libArg.code

\* Of a setting and two messages, the setting and the last message are kept.
C18_Witness ==
    /\ libOp = "TruncateMessages"
    /\ libArg.n = 1
    /\ libArg.code = <<IntInst("SET_MAX", 5), OpInst("MSG_START"), OpInst("MSG_END"),
                       OpInst("MSG_START"), OpInst("MSG_END")>>
    /\ libRes.code = <<IntInst("SET_MAX", 5), OpInst("MSG_START"), OpInst("MSG_END")>>

\* ------------------------------------------------ emit_anthropic_response.go
MaxEmitLen == 4

\* A content block; the fields a block type does not use stay empty.
TextBlock(text) ==
    [type |-> "text", text |-> text, thinking |-> <<>>, signature |-> <<>>,
     id |-> <<>>, name |-> <<>>, input |-> <<>>, extra |-> <<>>]
ThinkingBlock(thinking, signature) ==
    [type |-> "thinking", text |-> <<>>, thinking |-> thinking,
     signature |-> signature, id |-> <<>>, name |-> <<>>, input |-> <<>>,
     extra |-> <<>>]
ToolUseBlock(id) ==
    [type |-> "tool_use", text |-> <<>>, thinking |-> <<>>, signature |-> <<>>,
     id |-> id, name |-> <<>>, input |-> <<>>, extra |-> <<>>]

\* ExtrasCollector: a level is a sequence of <<key, value>> in the order
\* they were added; a later value for a key wins when it is merged.
NewExtrasCollector == << <<>> >>
ExtrasPush(levels) == Append(levels, <<>>)
ExtrasPop(levels) == IF Len(levels) > 1 THEN SubSeq(levels, 1, Len(levels) - 1) ELSE levels
ExtrasAdd(levels, key, val) ==
    [levels EXCEPT ![Len(levels)] = Append(levels[Len(levels)], <<key, val>>)]
ExtrasCurrent(levels) == levels[Len(levels)]
\* Fault: the current level keeps its entries.
ExtrasReset_Keep(levels) == levels

ExtrasReset(levels) == [levels EXCEPT ![Len(levels)] = <<>>]

\* The locals of EmitResponse before the loop.
EmitStart ==
    [id |-> <<>>, model |-> <<>>, usage |-> FALSE, stop_reason |-> <<>>, extra |-> <<>>,
     contentBlocks |-> <<>>, textContent |-> <<>>, levels |-> NewExtrasCollector,
     inMessage |-> FALSE, inThinking |-> FALSE, thinkingText |-> <<>>,
     thinkingSignature |-> <<>>]

\* contentBlocks with the pending text appended as a text block.
FlushText(st) ==
    IF st.textContent # <<>> THEN Append(st.contentBlocks, TextBlock(st.textContent))
    ELSE st.contentBlocks

LastIsToolUse(st) ==
    Len(st.contentBlocks) > 0 /\ st.contentBlocks[Len(st.contentBlocks)].type = "tool_use"

\* "stop", "tool_calls" and "length", and what RESP_DONE maps them to:
\* "end_turn", "tool_use" and "max_tokens".
AnthropicResponseStop(s) ==
    IF s = <<115, 116, 111, 112>> THEN <<101, 110, 100, 95, 116, 117, 114, 110>>
    ELSE IF s = <<116, 111, 111, 108, 95, 99, 97, 108, 108, 115>>
         THEN <<116, 111, 111, 108, 95, 117, 115, 101>>
    ELSE IF s = <<108, 101, 110, 103, 116, 104>>
         THEN <<109, 97, 120, 95, 116, 111, 107, 101, 110, 115>>
    ELSE s

\* "media_type"
MediaTypeKey == <<109, 101, 100, 105, 97, 95, 116, 121, 112, 101>>

\* One turn of the loop of EmitResponse: the switch on inst.Op.
EmitStep(st, inst, buffers) ==
    LET op == inst.Op
        n == Len(st.contentBlocks)
    IN  IF op = "RESP_ID" THEN [st EXCEPT !.id = inst.Str]
        ELSE IF op = "RESP_MODEL" THEN [st EXCEPT !.model = inst.Str]
        ELSE IF op = "USAGE"
             THEN IF Compact(inst.JSON) = <<123, 125>> THEN [st EXCEPT !.usage = TRUE]
                  ELSE st
        ELSE IF op = "MSG_START"
             THEN [st EXCEPT !.levels = ExtrasPush(st.levels), !.inMessage = TRUE,
                             !.contentBlocks = <<>>, !.textContent = <<>>]
        ELSE IF op = "TXT_CHUNK"
             THEN IF st.inMessage THEN [st EXCEPT !.textContent = @ \o inst.Str] ELSE st
        ELSE IF op = "THINK_START"
             THEN [st EXCEPT !.inThinking = TRUE, !.thinkingText = <<>>,
                             !.thinkingSignature = <<>>]
        ELSE IF op = "THINK_CHUNK"
             THEN IF st.inThinking THEN [st EXCEPT !.thinkingText = @ \o inst.Str] ELSE st
        ELSE IF op = "THINK_REF"
             THEN IF st.inThinking /\ inst.Ref < Len(buffers)
                  THEN [st EXCEPT !.thinkingSignature = buffers[inst.Ref + 1]]
                  ELSE st
        ELSE IF op = "THINK_END"
             THEN IF st.inThinking /\ st.inMessage
                  THEN [st EXCEPT !.contentBlocks =
                                      Append(FlushText(st),
                                             ThinkingBlock(st.thinkingText,
                                                           st.thinkingSignature)),
                                  !.textContent = <<>>, !.inThinking = FALSE]
                  ELSE [st EXCEPT !.inThinking = FALSE]
        ELSE IF op = "CALL_START"
             THEN IF st.inMessage
                  THEN [st EXCEPT !.levels = ExtrasPush(st.levels),
                                  !.contentBlocks = Append(FlushText(st),
                                                           ToolUseBlock(inst.Str)),
                                  !.textContent = <<>>]
                  ELSE [st EXCEPT !.levels = ExtrasPush(st.levels)]
        ELSE IF op = "CALL_NAME"
             THEN IF LastIsToolUse(st)
                  THEN [st EXCEPT !.contentBlocks[n].name = inst.Str]
                  ELSE st
        ELSE IF op = "CALL_ARGS"
             THEN IF LastIsToolUse(st)
                  THEN [st EXCEPT !.contentBlocks[n].input = inst.JSON]
                  ELSE st
        ELSE IF op = "CALL_END"
             THEN IF LastIsToolUse(st)
                  THEN [st EXCEPT !.contentBlocks[n].extra = @ \o ExtrasCurrent(st.levels),
                                  !.levels = ExtrasPop(ExtrasReset(st.levels))]
                  ELSE [st EXCEPT !.levels = ExtrasPop(st.levels)]
        ELSE IF op = "RESP_DONE"
             THEN [st EXCEPT !.stop_reason = AnthropicResponseStop(inst.Str)]
        ELSE IF op = "EXT_DATA"
             THEN [st EXCEPT !.levels = ExtrasAdd(st.levels, inst.Key, inst.JSON)]
        ELSE IF op = "SET_META"
             THEN IF inst.Key # MediaTypeKey
                  THEN [st EXCEPT !.levels = ExtrasAdd(st.levels, inst.Key, inst.Str)]
                  ELSE st
        ELSE IF op = "MSG_END"
             THEN [st EXCEPT !.contentBlocks = IF st.inMessage THEN FlushText(st) ELSE @,
                             !.inMessage = FALSE,
                             !.extra = @ \o ExtrasCurrent(st.levels),
                             !.levels = ExtrasPop(ExtrasReset(st.levels))]
        ELSE st

RECURSIVE EmitLoop(_, _, _, _)
EmitLoop(st, code, i, buffers) ==
    IF i > Len(code) THEN st
    ELSE EmitLoop(EmitStep(st, code[i], buffers), code, i + 1, buffers)

\* AnthropicEmitter.EmitResponse: the fields of the JSON object it marshals.
\* A tool_use input that is no JSON text makes json.Marshal fail.
EmitResponse(p) ==
    LET st == EmitLoop(EmitStart, p.Code, 1, p.Buffers)
    IN  [err |-> \E k \in 1..Len(st.contentBlocks) :
                    /\ Len(st.contentBlocks[k].input) > 0
                    /\ ~Valid(st.contentBlocks[k].input),
         id |-> st.id, model |-> st.model, usage |-> st.usage,
         stop_reason |-> st.stop_reason, content |-> st.contentBlocks,
         extra |-> st.extra \o ExtrasCurrent(st.levels)]

\* The state of message assembly after code: "outside", "in-message",
\* "in-think" or "in-call", driven by the START and END opcodes; "bad" when
\* a START or END opcode comes in a state it does not belong to.
RECURSIVE AssemblyState(_, _, _)
AssemblyState(code, i, state) ==
    IF i > Len(code) \/ state = "bad" THEN state
    ELSE LET op == code[i].Op
             next ==
                IF op = "MSG_START" THEN (IF state = "outside" THEN "in-message" ELSE "bad")
                ELSE IF op = "MSG_END"
                     THEN (IF state = "in-message" THEN "outside" ELSE "bad")
                ELSE IF op = "THINK_START"
                     THEN (IF state = "in-message" THEN "in-think" ELSE "bad")
                ELSE IF op = "THINK_END"
                     THEN (IF state = "in-think" THEN "in-message" ELSE "bad")
                ELSE IF op = "CALL_START"
                     THEN (IF state = "in-message" THEN "in-call" ELSE "bad")
                ELSE IF op = "CALL_END"
                     THEN (IF state = "in-call" THEN "in-message" ELSE "bad")
                ELSE state
         IN  AssemblyState(code, i + 1, next)

\* Programs of a response, the blocks properly nested.
EmitInsts ==
    {OpInst("MSG_START"), OpInst("MSG_END"), StrInst("TXT_CHUNK", <<97>>),
     OpInst("THINK_START"), StrInst("THINK_CHUNK", <<116>>), OpInst("THINK_END"),
     StrInst("CALL_START", <<99>>), StrInst("CALL_NAME", <<102>>), OpInst("CALL_END")}

EmitPrograms ==
    {code \in SeqsUpTo(EmitInsts, MaxEmitLen) : AssemblyState(code, 1, "outside") # "bad"}

\* A content instruction put where the program may not expect it.
StrayInsts ==
    {StrInst("TXT_CHUNK", <<98>>), StrInst("THINK_CHUNK", <<117>>),
     StrInst("CALL_NAME", <<103>>), JSONInst("CALL_ARGS", <<123, 125>>)}

InsertAt(code, k, inst) == SubSeq(code, 1, k) \o <<inst>> \o SubSeq(code, k + 1, Len(code))

InitEmit ==
    /\ IdleConverter
    /\ libOp = "none"
    /\ \E code \in EmitPrograms, c \in StrayInsts :
          \E k \in 0..Len(code) : libArg = [code |-> code, k |-> k, c |-> c]
    /\ libRes = <<>>
    /\ heap = <<>>
    /\ progs = <<>>

\* out, err := emitter.EmitResponse(p)
EmitPlain ==
    /\ libOp = "none"
    /\ libOp' = "EmitResponse"
    /\ libRes' = [out |-> EmitResponse(Prog(libArg.code, <<>>))]
    /\ UNCHANGED <<libArg, heap, progs, streamVars>>

\* EmitResponse of the program with the instruction c put in after k
\* instructions.
EmitStray ==
    /\ libOp = "EmitResponse"
    /\ libOp' = "EmitResponseStray"
    /\ libRes' = [out |-> libRes.out,
                  stray |-> EmitResponse(Prog(InsertAt(libArg.code, libArg.k, libArg.c),
                                              <<>>))]
    /\ UNCHANGED <<libArg, heap, progs, streamVars>>

NextEmit == EmitPlain \/ EmitStray

SpecEmit == InitEmit /\ [][NextEmit]_vars

\* The state in which the content opcode op has an effect.
ValidState(op, state) ==
    IF op = "TXT_CHUNK" THEN state # "outside"
    ELSE IF op = "THINK_CHUNK" THEN state = "in-think"
    ELSE state = "in-call"

\* C20: a content opcode outside its valid state (CALL_NAME or CALL_ARGS not
\* between CALL_START and CALL_END, THINK_CHUNK outside a THINK block,
\* TXT_CHUNK outside a message) leaves the emitted JSON as it is without it.
C20_StrayContentIgnored ==
    (/\ libOp = "EmitResponseStray"
     /\ ~ValidState(libArg.c.Op,
                    AssemblyState(SubSeq(libArg.code, 1, libArg.k), 1, "outside")))
       => libRes.stray = libRes.out

\* ------------------------------------------------------ storage and aliasing
\* heap is the sequence of backing arrays allocated so far, addressed by
\* position: "bytes" (of a []byte or a json.RawMessage), "code" (of
\* Program.Code) and "buffers" (of Program.Buffers, as long as its capacity;
\* a slot is <<>> for nil or <<a>> for the byte slice on the array at a).
\* An instruction on the heap has <<>> or <<a>> as its JSON in the same way.
\* progs is the Program structs made so far: the address of the Code array,
\* the Buffers slice header, and where the Program came from.
MaxProgs == 2
\* The longest code and the most buffers Append is asked to produce.
MaxHeapCode == 14
MaxHeapBuffers == 6

Object(kind, data) == [kind |-> kind, data |-> data]

SliceHeader(ptr, len, cap) == [ptr |-> ptr, len |-> len, cap |-> cap]
NilSlice == SliceHeader(0, 0, 0)

ProgramStruct(code, buffers, from, by) ==
    [Code |-> code, Buffers |-> buffers, from |-> from, by |-> by]

\* The bytes a slot or a JSON field refers to.
Bytes(H, ref) == IF ref = <<>> THEN <<>> ELSE H[ref[1]].data

\* make([]byte, len(b)) and copy, or a byte slice allocated by the caller.
AllocBytes(H, b) ==
    IF Len(b) = 0 THEN [heap |-> H, ref |-> <<>>]
    ELSE [heap |-> Append(H, Object("bytes", b)), ref |-> <<Len(H) + 1>>]

\* Fault: the copy shares the JSON bytes of the source.
cloneInstruction_ShareJSON(H, inst) == [heap |-> H, inst |-> inst]

\* cloneInstruction: the JSON bytes are copied when there are any.
cloneInstruction(H, inst) ==
    IF inst.JSON # <<>>
    THEN LET a == AllocBytes(H, Bytes(H, inst.JSON))
         IN  [heap |-> a.heap, inst |-> [inst EXCEPT !.JSON = a.ref]]
    ELSE [heap |-> H, inst |-> inst]

\* cloneInstruction over a run of instructions, as the loops of the
\* operations do.
RECURSIVE CloneInsts(_, _)
CloneInsts(H, insts) ==
    IF Len(insts) = 0 THEN [heap |-> H, code |-> <<>>]
    ELSE LET front == CloneInsts(H, SubSeq(insts, 1, Len(insts) - 1))
             c == cloneInstruction(front.heap, insts[Len(insts)])
         IN  [heap |-> c.heap, code |-> Append(front.code, c.inst)]

\* buf := make([]byte, len(b)); copy(buf, b) for each buffer.
RECURSIVE CopyBuffers(_, _)
CopyBuffers(H, slots) ==
    IF Len(slots) = 0 THEN [heap |-> H, slots |-> <<>>]
    ELSE LET front == CopyBuffers(H, SubSeq(slots, 1, Len(slots) - 1))
             a == AllocBytes(front.heap, Bytes(H, slots[Len(slots)]))
         IN  [heap |-> a.heap, slots |-> Append(front.slots, a.ref)]

\* The capacity append gives a slice that is full: growslice doubles a
\* small slice.
GrowCap(cap) == IF cap = 0 THEN 1 ELSE 2 * cap

\* The capacity after n appends to an empty slice.
RECURSIVE CapAfter(_, _)
CapAfter(n, cap) == IF cap >= n THEN cap ELSE CapAfter(n, GrowCap(cap))

Padded(slots, cap) == slots \o [i \in 1..(cap - Len(slots)) |-> <<>>]

\* A Buffers slice of its own over slots, with capacity cap.
AllocBuffers(H, slots, cap) ==
    IF cap = 0 THEN [heap |-> H, hdr |-> NilSlice]
    ELSE [heap |-> Append(H, Object("buffers", Padded(slots, cap))),
          hdr |-> SliceHeader(Len(H) + 1, Len(slots), cap)]

\* The slots p.Buffers shows.
Slots(H, hdr) == IF hdr.len = 0 THEN <<>> ELSE SubSeq(H[hdr.ptr].data, 1, hdr.len)

\* The Program a struct stands for: its code with the JSON bytes and its
\* buffers with their bytes.
View(H, p) ==
    Prog([i \in 1..Len(H[p.Code].data) |->
             [H[p.Code].data[i] EXCEPT !.JSON = Bytes(H, H[p.Code].data[i].JSON)]],
         [i \in 1..p.Buffers.len |-> Bytes(H, Slots(H, p.Buffers)[i])])

Views(H, PS) == [h \in 1..Len(PS) |-> View(H, PS[h])]

\* Fault: the operation builds its result in the Program it is called on.
NewProgram_Receiver(PS, from) == from

\* NewProgram(): the handle of the Program the operation returns.
NewProgram(PS, from) == Len(PS) + 1

\* A Program made by an operation on PS[from]: a Code array of its own with
\* the clones of insts, and the Buffers slice hdr.
Install(H, PS, from, by, insts, hdr) ==
    LET c == CloneInsts(H, insts)
        h == NewProgram(PS, from)
        s == ProgramStruct(Len(c.heap) + 1, hdr, from, by)
    IN  [heap |-> Append(c.heap, Object("code", c.code)),
         progs |-> IF h > Len(PS) THEN Append(PS, s)
                   ELSE [PS EXCEPT ![h] = [s EXCEPT !.from = PS[h].from, !.by = PS[h].by]]]

\* The result of an operation that shares the buffers: result.Buffers =
\* p.Buffers.
Shared(H, PS, from, by, insts) == Install(H, PS, from, by, insts, PS[from].Buffers)

\* The result of p.Clone() with the code insts: Buffers is a slice of its
\* own, as long as p's, over copies of the bytes.
Cloned(H, PS, from, by, insts) ==
    LET b == CopyBuffers(H, Slots(H, PS[from].Buffers))
        a == AllocBuffers(b.heap, b.slots, Len(b.slots))
    IN  Install(a.heap, PS, from, by, insts, a.hdr)

\* The result of p.Append(other): the buffers of both are copied and
\* appended one by one to an empty slice.
Appended(H, PS, from, other) ==
    LET b == CopyBuffers(H, Slots(H, PS[from].Buffers) \o Slots(H, PS[other].Buffers))
        a == AllocBuffers(b.heap, b.slots, CapAfter(Len(b.slots), 0))
    IN  Install(a.heap, PS, from, "Append",
                H[PS[from].Code].data
                   \o ShiftRefs(H[PS[other].Code].data, PS[from].Buffers.len),
                a.hdr)

\* p.AddBuffer(data): p.Buffers = append(p.Buffers, data), into the spare
\* capacity when there is any and into a grown copy of the array otherwise.
AddBuffer(H, PS, h, data) ==
    LET a == AllocBytes(H, data)
        hdr == PS[h].Buffers
    IN  IF hdr.len < hdr.cap
        THEN [heap |-> [a.heap EXCEPT ![hdr.ptr].data[hdr.len + 1] = a.ref],
              progs |-> [PS EXCEPT ![h].Buffers.len = hdr.len + 1]]
        ELSE LET g == AllocBuffers(a.heap, Append(Slots(H, hdr), a.ref), GrowCap(hdr.cap))
             IN  [heap |-> g.heap, progs |-> [PS EXCEPT ![h].Buffers = g.hdr]]

\* A parser's Program: NewProgram, the instructions emitted and the buffers
\* added one by one.
RECURSIVE AllocJSON(_, _)
AllocJSON(H, code) ==
    IF Len(code) = 0 THEN [heap |-> H, code |-> <<>>]
    ELSE LET a == AllocBytes(H, code[1].JSON)
             rest == AllocJSON(a.heap, Tail(code))
         IN  [heap |-> rest.heap, code |-> <<[code[1] EXCEPT !.JSON = a.ref]>> \o rest.code]

RECURSIVE AllocAll(_, _)
AllocAll(H, buffers) ==
    IF Len(buffers) = 0 THEN [heap |-> H, slots |-> <<>>]
    ELSE LET a == AllocBytes(H, buffers[1])
             rest == AllocAll(a.heap, Tail(buffers))
         IN  [heap |-> rest.heap, slots |-> <<a.ref>> \o rest.slots]

Parsed(p) ==
    LET j == AllocJSON(<<>>, p.Code)
        b == AllocAll(j.heap, p.Buffers)
        a == AllocBuffers(b.heap, b.slots, CapAfter(Len(b.slots), 0))
    IN  [heap |-> Append(a.heap, Object("code", j.code)),
         progs |-> <<ProgramStruct(Len(a.heap) + 1, a.hdr, 0, "Parse")>>]

\* Programs a parser hands over: messages, a JSON payload and one buffer;
\* three buffers, which leaves spare capacity in Buffers; neither messages
\* nor buffers.
HeapPrograms ==
    { Prog(<<OpInst("MSG_START"), OpInst("ROLE_SYS"), StrInst("TXT_CHUNK", <<111>>),
             OpInst("MSG_END"),
             OpInst("MSG_START"), JSONInst("CALL_ARGS", <<123, 125>>),
             OpInst("MSG_END")>>,
           << <<1, 2>> >>),
      Prog(<<JSONInst("CALL_ARGS", <<91, 93>>), RefInst("TXT_REF", 2)>>,
           << <<1>>, <<2>>, <<3>> >>),
      Prog(<<IntInst("SET_MAX", 5)>>, <<>>) }

DeriveOps ==
    {"Clone", "Slice", "Append", "RemoveRange", "RemoveMessages", "ReplaceRange",
     "InsertBefore", "InsertAfter", "TruncateMessages", "PrependSystemPrompt",
     "ReplaceSystemPrompt", "AppendUserMessage"}

WriteOps == {"AddBuffer", "SetBuffer", "SetBufferByte", "SetJSONByte", "SetField"}

InstFields == {"Op", "Str", "Num", "Int", "Key", "Ref"}

Handles == 1..Len(progs)
CodeOf(h) == heap[progs[h].Code].data
Positions == 0..1
NewText == <<115>>
NewInsts == <<StrInst("TXT_CHUNK", <<110>>)>>
NewData == <<9>>

\* What the Programs stood for before the call, for comparison after it.
Before == [views |-> Views(heap, progs), progs |-> progs, heapLen |-> Len(heap)]

InitHeap ==
    /\ IdleConverter
    /\ libOp = "none"
    /\ libArg = <<>>
    /\ libRes = <<>>
    /\ \E p \in HeapPrograms : \E r \in {Parsed(p)} :
          heap = r.heap /\ progs = r.progs

\* A call of a composition operation on progs[h] that returns r.
Derive(by, arg, r) ==
    /\ libOp \notin WriteOps
    /\ Len(progs) < MaxProgs
    /\ libOp' = by
    /\ libArg' = arg
    /\ libRes' = Before
    /\ heap' = r.heap
    /\ progs' = r.progs
    /\ UNCHANGED streamVars

\* A write through progs[h] that leaves the storage as r.
Write(by, arg, r) ==
    /\ libOp \notin WriteOps
    /\ libOp' = by
    /\ libArg' = arg
    /\ libRes' = Before
    /\ heap' = r.heap
    /\ progs' = r.progs
    /\ UNCHANGED streamVars

CallClone ==
    \E h \in Handles :
       Derive("Clone", [h |-> h], Cloned(heap, progs, h, "Clone", CodeOf(h)))

CallSlice ==
    \E h \in Handles : \E start \in Positions, end \in Positions :
       Derive("Slice", [h |-> h, start |-> start, end |-> end],
              Shared(heap, progs, h, "Slice", Slice(CodeOf(h), start, end)))

CallAppend ==
    \E h \in Handles : \E other \in Handles :
       /\ Len(CodeOf(h)) + Len(CodeOf(other)) <= MaxHeapCode
       /\ progs[h].Buffers.len + progs[other].Buffers.len <= MaxHeapBuffers
       /\ Derive("Append", [h |-> h, other |-> other], Appended(heap, progs, h, other))

CallRemoveRange ==
    \E h \in Handles : \E start \in Positions, end \in Positions :
       Derive("RemoveRange", [h |-> h, start |-> start, end |-> end],
              Shared(heap, progs, h, "RemoveRange", RemoveRange(CodeOf(h), start, end)))

CallRemoveMessages ==
    \E h \in Handles : \E n \in 0..Len(Messages(CodeOf(h))) :
       Derive("RemoveMessages", [h |-> h, n |-> n],
              Shared(heap, progs, h, "RemoveMessages",
                     RemoveMessages(CodeOf(h), SubSeq(Messages(CodeOf(h)), 1, n))))

CallReplaceRange ==
    \E h \in Handles : \E start \in Positions, end \in Positions :
       Derive("ReplaceRange", [h |-> h, start |-> start, end |-> end],
              Shared(heap, progs, h, "ReplaceRange",
                     ReplaceRange(CodeOf(h), start, end, NewInsts)))

CallInsertBefore ==
    \E h \in Handles : \E index \in Positions :
       Derive("InsertBefore", [h |-> h, index |-> index],
              Shared(heap, progs, h, "InsertBefore",
                     InsertBefore(CodeOf(h), index, NewInsts)))

CallInsertAfter ==
    \E h \in Handles : \E index \in Positions :
       Derive("InsertAfter", [h |-> h, index |-> index],
              Shared(heap, progs, h, "InsertAfter",
                     InsertAfter(CodeOf(h), index, NewInsts)))

\* How an operation that ends in p.Clone() or in a sharing operation
\* builds its result.
Built(h, by, r) ==
    IF r.clone THEN Cloned(heap, progs, h, by, r.code)
    ELSE Shared(heap, progs, h, by, r.code)

CallTruncateMessages ==
    \E h \in Handles : \E n \in 0..1 : \E r \in {TruncateMessages(CodeOf(h), n)} :
       Derive("TruncateMessages", [h |-> h, n |-> n], Built(h, "TruncateMessages", r))

CallPrependSystemPrompt ==
    \E h \in Handles : \E r \in {PrependSystemPrompt(CodeOf(h), NewText)} :
       Derive("PrependSystemPrompt", [h |-> h], Built(h, "PrependSystemPrompt", r))

CallReplaceSystemPrompt ==
    \E h \in Handles : \E r \in {ReplaceSystemPrompt(CodeOf(h), NewText)} :
       Derive("ReplaceSystemPrompt", [h |-> h], Built(h, "ReplaceSystemPrompt", r))

CallAppendUserMessage ==
    \E h \in Handles :
       Derive("AppendUserMessage", [h |-> h],
              Cloned(heap, progs, h, "AppendUserMessage",
                     AppendUserMessage(CodeOf(h), NewText)))

\* p.AddBuffer(data)
WriteAddBuffer ==
    \E h \in Handles :
       Write("AddBuffer", [h |-> h], AddBuffer(heap, progs, h, NewData))

\* p.Buffers[i] = data
WriteBuffer ==
    \E h \in Handles : \E i \in 1..progs[h].Buffers.len :
       \E a \in {AllocBytes(heap, NewData)} :
          Write("SetBuffer", [h |-> h, i |-> i],
                [heap |-> [a.heap EXCEPT ![progs[h].Buffers.ptr].data[i] = a.ref],
                 progs |-> progs])

\* p.Buffers[i][0] = b
WriteBufferByte ==
    \E h \in Handles : \E i \in 1..progs[h].Buffers.len :
       \E ref \in {Slots(heap, progs[h].Buffers)[i]} :
          /\ ref # <<>>
          /\ Write("SetBufferByte", [h |-> h, i |-> i],
                   [heap |-> [heap EXCEPT ![ref[1]].data[1] = 9], progs |-> progs])

\* p.Code[i].JSON[0] = b
WriteJSONByte ==
    \E h \in Handles : \E i \in 1..Len(CodeOf(h)) :
       \E ref \in {CodeOf(h)[i].JSON} :
          /\ ref # <<>>
          /\ Write("SetJSONByte", [h |-> h, i |-> i],
                   [heap |-> [heap EXCEPT ![ref[1]].data[1] = 9], progs |-> progs])

\* The value a write gives a field of an instruction.
Changed(inst, f) ==
    CASE f = "Op" -> [inst EXCEPT !.Op = IF inst.Op = "MSG_END" THEN "MSG_START" ELSE "MSG_END"]
      [] f = "Str" -> [inst EXCEPT !.Str = Append(inst.Str, 122)]
      [] f = "Num" -> [inst EXCEPT !.Num = [inst.Num EXCEPT ![1] = (inst.Num[1] + 1) % 256]]
      [] f = "Int" -> [inst EXCEPT !.Int = inst.Int + 1]
      [] f = "Key" -> [inst EXCEPT !.Key = Append(inst.Key, 122)]
      [] f = "Ref" -> [inst EXCEPT !.Ref = inst.Ref + 1]

\* p.Code[i].f = v, for the first and the last instruction
WriteField ==
    \E h \in Handles : \E i \in {1, Len(CodeOf(h))} \cap (1..Len(CodeOf(h))) : \E f \in InstFields :
       Write("SetField", [h |-> h, i |-> i, f |-> f],
             [heap |-> [heap EXCEPT ![progs[h].Code].data[i] = Changed(CodeOf(h)[i], f)],
              progs |-> progs])

NextHeap ==
    \/ CallClone
    \/ CallSlice
    \/ CallAppend
    \/ CallRemoveRange
    \/ CallRemoveMessages
    \/ CallReplaceRange
    \/ CallInsertBefore
    \/ CallInsertAfter
    \/ CallTruncateMessages
    \/ CallPrependSystemPrompt
    \/ CallReplaceSystemPrompt
    \/ CallAppendUserMessage
    \/ WriteAddBuffer
    \/ WriteBuffer
    \/ WriteBufferByte
    \/ WriteJSONByte
    \/ WriteField

SpecHeap == InitHeap /\ [][NextHeap]_vars


\* C15: a write through a Program that came from Clone (to a field of an
\* instruction, to the bytes of a JSON payload, to the bytes of a buffer, or
\* to the buffer list) leaves the Program it was cloned from as it was.
C15_CloneIsIndependent ==
    (libOp \in WriteOps /\ progs[libArg.h].by = "Clone") =>
       View(heap, progs[progs[libArg.h].from]) = libRes.views[progs[libArg.h].from]

\* The bytes of the CALL_ARGS payload of a clone were written, and the clone
\* shows the write.
C15_Witness ==
    /\ libOp = "SetJSONByte"
    /\ progs[libArg.h].by = "Clone"
    /\ libRes.views[progs[libArg.h].from].Code[libArg.i].Op = "CALL_ARGS"
    /\ View(heap, progs[libArg.h]).Code[libArg.i].JSON[1] = 9
    /\ libRes.views[libArg.h].Code[libArg.i].JSON[1] # 9

\* C16: adding or changing a buffer through a Program that came from Clone
\* or Slice leaves the buffers of every other Program as they were.
C16_IndependentBuffers ==
    (libOp \in {"AddBuffer", "SetBuffer", "SetBufferByte"}
        /\ progs[libArg.h].by \in {"Clone", "Slice"}) =>
       \A g \in Handles \ {libArg.h} :
          View(heap, progs[g]).Buffers = libRes.views[g].Buffers

\* C17: a composition operation returns a Program of its own, with a Code
\* array allocated by the call, and leaves the Program it was called on
\* with the code and the buffers it had.
C17_OperationsLeaveReceiver ==
    libOp \in DeriveOps =>
       /\ Len(progs) = Len(libRes.progs) + 1
       /\ progs[Len(progs)].from = libArg.h
       /\ progs[Len(progs)].Code > libRes.heapLen
       /\ \A g \in 1..Len(libRes.progs) : progs[g].Code # progs[Len(progs)].Code
       /\ progs[libArg.h] = libRes.progs[libArg.h]
       /\ View(heap, progs[libArg.h]) = libRes.views[libArg.h]

\* RemoveRange returned a shorter Program over the receiver's buffers.
C17_Witness ==
    /\ libOp = "RemoveRange"
    /\ Len(View(heap, progs[Len(progs)]).Code) < Len(libRes.views[libArg.h].Code)
    /\ progs[Len(progs)].Buffers.len > 0
    /\ View(heap, progs[libArg.h]) = libRes.views[libArg.h]


\* ------------------------------------------------------------ finish reasons
\* A finish reason on the wire or in the IR is <<>> when the field or the
\* RESP_DONE instruction is absent and <<s>> when it is there with value s.
CanonicalReasons == {"stop", "tool_calls", "length"}

\* Canonical values, the vendors' values, a value no table knows, and "".
FinishValues ==
    CanonicalReasons
       \cup {"end_turn", "tool_use", "max_tokens", "STOP", "MAX_TOKENS",
             "content_filter", ""}

FinishPaths == {"response", "stream"}

\* stop_reason -> RESP_DONE of the Anthropic parsers
AnthropicParseStop(s) ==
    CASE s = "end_turn" -> "stop"
      [] s = "tool_use" -> "tool_calls"
      [] s = "max_tokens" -> "length"
      [] OTHER -> s

\* Fault: MAX_TOKENS is passed through.
GoogleParseFinish_NoLength(s) ==
    IF s = "STOP" THEN "stop" ELSE s

\* finishReason -> RESP_DONE of the Google GenAI parsers
GoogleParseFinish(s) ==
    IF s = "STOP" THEN "stop" ELSE IF s = "MAX_TOKENS" THEN "length" ELSE s

\* What an emitter writes for RESP_DONE s: finish_reason (Chat
\* Completions), stop_reason (Anthropic), or finishReason (Google GenAI,
\* left out when it is empty).
EmitFinish(style, path, s) ==
    CASE style = StyleChatCompletions -> <<s>>
      [] style = StyleAnthropic -> <<AnthropicStopReason(s)>>
      [] style = StyleGoogleGenAI ->
           IF GoogleFinishReason(s) = "" THEN <<>> ELSE <<GoogleFinishReason(s)>>

\* The RESP_DONE a parser emits for the field f.  The parsers skip an empty
\* value, except the Anthropic response parser, which maps whatever string
\* the field holds.
ParseFinish(style, path, f) ==
    IF f = <<>> THEN <<>>
    ELSE CASE style = StyleChatCompletions -> IF f[1] = "" THEN <<>> ELSE <<f[1]>>
           [] style = StyleAnthropic ->
                IF path = "stream" /\ f[1] = "" THEN <<>>
                ELSE <<AnthropicParseStop(f[1])>>
           [] style = StyleGoogleGenAI ->
                IF f[1] = "" THEN <<>> ELSE <<GoogleParseFinish(f[1])>>

InitFinish ==
    /\ IdleConverter
    /\ libOp = "none"
    /\ libArg \in [style : TargetStyles, path : FinishPaths, reason : FinishValues]
    /\ libRes = <<>>
    /\ heap = <<>>
    /\ progs = <<>>

\* The emitter writes the reason.
EmitReason ==
    /\ libOp = "none"
    /\ libOp' = "emit"
    /\ libRes' = [vendor |-> EmitFinish(libArg.style, libArg.path, libArg.reason)]
    /\ UNCHANGED <<libArg, heap, progs, streamVars>>

\* The parser of the same vendor reads what was written.
ParseReason ==
    /\ libOp = "emit"
    /\ libOp' = "parse"
    /\ libRes' = [vendor |-> libRes.vendor,
                  ir |-> ParseFinish(libArg.style, libArg.path, libRes.vendor)]
    /\ UNCHANGED <<libArg, heap, progs, streamVars>>

\* The emitter writes what the parser read.
EmitReasonAgain ==
    /\ libOp = "parse"
    /\ libOp' = "emit2"
    /\ libRes' = [vendor |-> libRes.vendor, ir |-> libRes.ir,
                  again |-> IF libRes.ir = <<>> THEN <<>>
                            ELSE EmitFinish(libArg.style, libArg.path, libRes.ir[1])]
    /\ UNCHANGED <<libArg, heap, progs, streamVars>>

NextFinish ==
    \/ EmitReason
    \/ ParseReason
    \/ EmitReasonAgain

SpecFinish == InitFinish /\ [][NextFinish]_vars

\* C21: for every vendor and each of "stop", "tool_calls" and "length", the
\* vendor's parser reads the emitted value back as the same canonical value,
\* and emitting that again gives the same vendor value.
C21_FinishReasonRoundTrip ==
    (libOp = "emit2" /\ libArg.reason \in CanonicalReasons) =>
       /\ libRes.vendor # <<>>
       /\ libRes.ir = <<libArg.reason>>
       /\ libRes.again = libRes.vendor

\* "length" went out as MAX_TOKENS and came back as "length".
C21_Witness ==
    /\ libOp = "emit2"
    /\ libArg.style = StyleGoogleGenAI
    /\ libArg.reason = "length"
    /\ libRes.vendor = <<"MAX_TOKENS">>
    /\ libRes.ir = <<"length">>
    /\ libRes.again = <<"MAX_TOKENS">>


\* ---------------------------------------------------------------- extras.go
\* A JSON object the emitters build (map[string]any) is a function from its
\* keys to their values.
MaxExtrasOps == 4
MaxDepth == 3

EmptyObject == <<>>

\* obj[k] = v
Put(obj, k, v) == [x \in (DOMAIN obj) \cup {k} |-> IF x = k THEN v ELSE obj[x]]

\* for k, v := range cur { obj[k] = v }
RECURSIVE PutAll(_, _)
PutAll(obj, entries) ==
    IF Len(entries) = 0 THEN obj
    ELSE PutAll(Put(obj, entries[1][1], entries[1][2]), Tail(entries))

\* The map a level holds.
LevelMap(level) == PutAll(EmptyObject, level)

\* MergeInto(obj): the entries of the current level go into obj and the
\* current level becomes a new empty map.
MergeInto(levels, obj) ==
    [levels |-> ExtrasReset(levels), obj |-> PutAll(obj, ExtrasCurrent(levels))]

ExtrasKeys == {"a", "b"}

\* What AddString and AddJSON store: the string, or a copy of the bytes.
ExtrasValues == {<<"string", "s">>, <<"json", "1">>}

\* Objects MergeInto is called with: a new one, and one with a field that
\* has a key of the extras.
TargetObjects == {EmptyObject, Put(EmptyObject, "a", <<"string", "own">>)}

\* An entry of the record of calls: the call, its arguments and the number
\* of levels after it.
Called(op, key, val, depth) == [op |-> op, key |-> key, val |-> val, depth |-> depth]

InitExtras ==
    /\ IdleConverter
    /\ libOp = "none"
    /\ libArg = <<>>
    /\ libRes = [levels |-> NewExtrasCollector, obj |-> EmptyObject,
                 before |-> NewExtrasCollector, log |-> <<>>]
    /\ heap = <<>>
    /\ progs = <<>>

\* A call on the collector that leaves it with levels and the target as obj.
ExtrasCall(op, arg, key, val, levels, obj) ==
    /\ Len(libRes.log) < MaxExtrasOps
    /\ libOp' = op
    /\ libArg' = arg
    /\ libRes' = [levels |-> levels, obj |-> obj, before |-> libRes.levels,
                  log |-> Append(libRes.log, Called(op, key, val, Len(levels)))]
    /\ UNCHANGED <<heap, progs, streamVars>>

CallPush ==
    /\ Len(libRes.levels) < MaxDepth
    /\ ExtrasCall("Push", <<>>, "", <<>>, ExtrasPush(libRes.levels), libRes.obj)

CallPop ==
    ExtrasCall("Pop", <<>>, "", <<>>, ExtrasPop(libRes.levels), libRes.obj)

CallAddString ==
    \E k \in ExtrasKeys :
       ExtrasCall("AddString", [key |-> k], k, <<"string", "s">>,
                  ExtrasAdd(libRes.levels, k, <<"string", "s">>), libRes.obj)

CallAddJSON ==
    \E k \in ExtrasKeys :
       ExtrasCall("AddJSON", [key |-> k], k, <<"json", "1">>,
                  ExtrasAdd(libRes.levels, k, <<"json", "1">>), libRes.obj)

CallMergeInto ==
    \E obj \in TargetObjects : \E r \in {MergeInto(libRes.levels, obj)} :
       ExtrasCall("MergeInto", [obj |-> obj], "", <<>>, r.levels, r.obj)

NextExtras ==
    \/ CallPush
    \/ CallPop
    \/ CallAddString
    \/ CallAddJSON
    \/ CallMergeInto

SpecExtras == InitExtras /\ [][NextExtras]_vars

\* The calls before position i that belong to the item being collected at
\* depth d: those made at depth d since the level was pushed or last merged.
RECURSIVE ItemCalls(_, _, _)
ItemCalls(log, i, d) ==
    IF i = 0 THEN <<>>
    ELSE IF log[i].depth = d /\ log[i].op \in {"Push", "MergeInto"} THEN <<>>
    ELSE IF log[i].depth = d /\ log[i].op \in {"AddString", "AddJSON"}
         THEN Append(ItemCalls(log, i - 1, d), <<log[i].key, log[i].val>>)
    ELSE ItemCalls(log, i - 1, d)

\* C22: MergeInto puts into the target exactly the entries added for the
\* current item (at this depth since the level was pushed or last merged),
\* keeps the target's other fields, leaves the current level empty and the
\* levels below as they were.
C22_MergeIntoCopiesAndResets ==
    libOp = "MergeInto" =>
       LET n == Len(libRes.log)
           d == Len(libRes.levels)
           item == LevelMap(ItemCalls(libRes.log, n - 1, d))
       IN  /\ DOMAIN libRes.obj = (DOMAIN libArg.obj) \cup (DOMAIN item)
           /\ \A k \in DOMAIN item : libRes.obj[k] = item[k]
           /\ \A k \in (DOMAIN libArg.obj) \ (DOMAIN item) : libRes.obj[k] = libArg.obj[k]
           /\ d = Len(libRes.before)
           /\ libRes.levels[d] = <<>>
           /\ \A i \in 1..(d - 1) : libRes.levels[i] = libRes.before[i]

\* Two items merged one after the other at the same depth: the first had
\* key "a", the second has only key "b".
C22_Witness ==
    /\ libOp = "MergeInto"
    /\ Len(libRes.log) = 4
    /\ libRes.log[1].op = "AddString" /\ libRes.log[1].key = "a"
    /\ libRes.log[2].op = "MergeInto"
    /\ libRes.log[3].op = "AddJSON" /\ libRes.log[3].key = "b"
    /\ libArg.obj = EmptyObject
    /\ DOMAIN libRes.obj = {"b"}


\* C23: PrependSystemPrompt(text) on a Program with a leading system message
\* returns a Program whose SystemPrompt() is text and that has as many
\* messages as the original, and the original's SystemPrompt() stays.
C23_PrependReplacesSystemPrompt ==
    (libOp = "PrependSystemPrompt"
        /\ Len(SystemPrompts(libRes.views[libArg.h].Code)) > 0) =>
       /\ SystemPrompt(View(heap, progs[Len(progs)]).Code) = NewText
       /\ CountMessages(View(heap, progs[Len(progs)]).Code)
             = CountMessages(libRes.views[libArg.h].Code)
       /\ SystemPrompt(View(heap, progs[libArg.h]).Code)
             = SystemPrompt(libRes.views[libArg.h].Code)


\* ------------------------------------------------------------------
\* Incremental tool streaming: targets that take tool deltas one by one
\* (OpenAI Chat, Anthropic), fed chunks that carry up to MaxToolCalls tool
\* calls, each with any of id+name and an arguments fragment.
MaxToolCalls == 2

IncrementalTargets == {StyleChatCompletions, StyleAnthropic}

\* Tool deltas of one chunk: a start, an arguments fragment, or both at once
\* (a provider that sends a whole call in one delta).
WholeToolDeltas ==
    ToolDeltas \cup {ToolDeltaJSON(i, ToolId(i), ToolName(i), <<"{">>) : i \in ToolIndices}

ToolChunks ==
    {SourceChunk(FALSE, "", FALSE, "", FALSE, <<SourceChoice("", c, "", tc, "")>>) :
        c \in {"", "t"}, tc \in SeqsUpTo(WholeToolDeltas, MaxToolCalls)}

ToolPrograms ==
    SeqsUpTo({TextDelta} \cup {Instruction("STREAM_TOOL_DELTA", "", j) : j \in WholeToolDeltas},
             MaxToolCalls)

InitTools ==
    /\ \E to \in IncrementalTargets : NewStreamConverter(to)
    /\ FreshHistory
    /\ record = "all"
    /\ NoCalls
    /\ NoLibrary

PushTools == \E c \in ToolChunks : DoPush("push", ParseStreamChunk(c))

PushProgramTools == \E code \in ToolPrograms : DoPush("pushProgram", code)

NextTools == PushTools \/ PushProgramTools

SpecTools == InitTools /\ [][NextTools]_vars

\* The tool-call entries of one output chunk: the tool_calls of its choices
\* (chat.completion.chunk) or its content block (Anthropic event).
RECURSIVE ChoiceToolCalls(_, _)
ChoiceToolCalls(choices, i) ==
    IF i > Len(choices) THEN <<>>
    ELSE choices[i].tool_calls \o ChoiceToolCalls(choices, i + 1)

ToolCallsOf(out) ==
    ChoiceToolCalls(out.choices, 1)
    \o SelectSeq(out.parts, LAMBDA p : p.kind \in {"tool_use", "input_json_delta"})

\* Output chunk out carries tool delta j: its id, name and arguments.
Carries(out, j) ==
    \E n \in 1..Len(ToolCallsOf(out)) :
       /\ ToolCallsOf(out)[n].id = j.id
       /\ ToolCallsOf(out)[n].name = j.name
       /\ ToolCallsOf(out)[n].args = j.arguments

\* C24: with an OpenAI Chat or Anthropic target, every STREAM_TOOL_DELTA of
\* the pushed program appears, with its id, name and arguments fragment, in
\* the chunks that same push returns.
C24_ToolDeltasForwardedAtOnce ==
    (lastOp \in {"push", "pushProgram"} /\ targetStyle \in IncrementalTargets) =>
       \A i \in 1..Len(lastProg) :
          IsToolDelta(lastProg[i]) =>
             \E o \in 1..Len(lastOut) : Carries(lastOut[o], lastProg[i].JSON)


\* C25: with an Anthropic target, every STREAM_THINK_DELTA of the pushed
\* program yields a thinking_delta event among the outputs of that push.
C25_ThinkingDeltaKept ==
    (lastOp \in {"push", "pushProgram"} /\ targetStyle = StyleAnthropic) =>
       \A i \in 1..Len(lastProg) :
          lastProg[i].Op = "STREAM_THINK_DELTA" =>
             \E o \in 1..Len(lastOut) :
                /\ lastOut[o].type = "content_block_delta"
                /\ \E n \in 1..Len(lastOut[o].parts) :
                      /\ lastOut[o].parts[n].kind = "thinking_delta"
                      /\ lastOut[o].parts[n].text = lastProg[i].Str


\* ------------------------------------------------------------------
\* Tool-call indices assigned by the stream-chunk parsers.  A source stream
\* is a sequence of tool events; each event belongs to one tool call of the
\* source, which the source format names by its own position: the
\* tool_calls index (chat), the content block index (Anthropic), the
\* output_index (Responses); a Google functionCall part is a call of its own.
MaxEvents == 3
MaxSourceCalls == 2

StyleResponses == "openai-responses"

ParserStyles == {StyleChatCompletions, StyleAnthropic, StyleGoogleGenAI, StyleResponses}

SourceCalls == 0..(MaxSourceCalls - 1)

\* ChatCompletionsParser.ParseStreamChunk, one element of delta.tool_calls.
ChatParseToolCall(index, id, name, args) == ToolDeltaJSON(index, id, name, args)

\* AnthropicParser.ParseStreamChunk, content_block_start of a tool_use block.
AnthropicParseBlockStart(index, id, name) == ToolDeltaJSON(index, id, name, <<>>)

\* AnthropicParser.ParseStreamChunk, content_block_delta / input_json_delta.
AnthropicParseBlockDelta(index, partial) == ToolDeltaJSON(index, "", "", partial)

\* GoogleGenAIParser.ParseStreamChunk, one functionCall part.
GoogleParseFunctionCall(name, args) == ToolDeltaJSON(0, "", name, args)

\* ResponsesParser.ParseStreamChunk, response.output_item.added of a
\* function_call item: output_index is not read.
ResponsesParseItemAdded(outputIndex, callID, name) == ToolDeltaJSON(0, callID, name, <<>>)

\* ResponsesParser.ParseStreamChunk, response.function_call_arguments.delta.
ResponsesParseArgumentsDelta(outputIndex, itemID, delta) ==
    ToolDeltaJSON(outputIndex, itemID, "", delta)

\* The STREAM_TOOL_DELTA payloads parsed so far, each with its source call.
ParsedDelta(sourceCall, j) == [call |-> sourceCall, delta |-> j]

InitParse ==
    /\ IdleConverter
    /\ libOp = "none"
    /\ \E s \in ParserStyles : libArg = [parser |-> s]
    /\ libRes = <<>>
    /\ heap = <<>>
    /\ progs = <<>>

Parse(event, sourceCall, j) ==
    /\ Len(libRes) < MaxEvents
    /\ libOp' = event
    /\ libRes' = Append(libRes, ParsedDelta(sourceCall, j))
    /\ UNCHANGED <<libArg, heap, progs, streamVars>>

ChatToolCall ==
    /\ libArg.parser = StyleChatCompletions
    /\ \E k \in SourceCalls, start \in BOOLEAN :
          Parse("tool_calls", k,
                IF start THEN ChatParseToolCall(k, ToolId(k), ToolName(k), <<>>)
                ELSE ChatParseToolCall(k, "", "", <<"{">>))

AnthropicBlockStart ==
    /\ libArg.parser = StyleAnthropic
    /\ \E k \in SourceCalls :
          Parse("content_block_start", k, AnthropicParseBlockStart(k, ToolId(k), ToolName(k)))

AnthropicBlockDelta ==
    /\ libArg.parser = StyleAnthropic
    /\ \E k \in SourceCalls :
          Parse("content_block_delta", k, AnthropicParseBlockDelta(k, <<"{">>))

\* Every functionCall part is a tool call of its own: the next one of the
\* stream.
GoogleFunctionCall ==
    /\ libArg.parser = StyleGoogleGenAI
    /\ Len(libRes) < MaxSourceCalls
    /\ \E args \in {<<>>, <<"{", "}">>} :
          Parse("functionCall", Len(libRes),
                GoogleParseFunctionCall(ToolName(Len(libRes)), args))

ResponsesItemAdded ==
    /\ libArg.parser = StyleResponses
    /\ \E k \in SourceCalls :
          Parse("response.output_item.added", k,
                ResponsesParseItemAdded(k, ToolId(k), ToolName(k)))

ResponsesArgumentsDelta ==
    /\ libArg.parser = StyleResponses
    /\ \E k \in SourceCalls :
          Parse("response.function_call_arguments.delta", k,
                ResponsesParseArgumentsDelta(k, ToolId(k), <<"{">>))

NextParse ==
    \/ ChatToolCall
    \/ AnthropicBlockStart
    \/ AnthropicBlockDelta
    \/ GoogleFunctionCall
    \/ ResponsesItemAdded
    \/ ResponsesArgumentsDelta

SpecParse == InitParse /\ [][NextParse]_vars

\* C26: over one stream, the fragments of one source tool call all carry
\* the same index, and fragments of two different tool calls never carry the
\* same index.
C26_IndicesFollowSourceCalls ==
    \A a, b \in 1..Len(libRes) :
       (libRes[a].call = libRes[b].call) <=> (libRes[a].delta.index = libRes[b].delta.index)


\* ------------------------------------------------------------------
\* The caller's Program across PushProgram.  processInstructions hands back
\* the caller's own *Program as the single unit when the target is neither
\* split nor buffered; splitForTarget and processWithBuffering build new
\* Programs.
unitIsCallerProgram(target) == ~targetNeedsSplitting(target) /\ ~bufferTools(target)

\* Code of the Program the caller passed, after pushProgramLocked returned:
\* injectMetadata assigns unit.Code, and the unit may be the caller's Program.
\* id and model are the values trackMetadata left in the converter.
CallerCodeAfter(target, id, model, code) ==
    IF Len(code) = 0 THEN code
    ELSE IF unitIsCallerProgram(target) THEN injectMetadata(id, model, code)
    ELSE code

\* C27: PushProgram leaves the Program passed in as it was, for every target
\* style and every translator state.
C27_PushProgramReadOnly ==
    lastOp = "pushProgram" =>
       CallerCodeAfter(targetStyle, respID, respModel, lastProg) = lastProg


\* ------------------------------------------------------------------
\* stream.go: StreamAssembler.  Texts that are concatenated (the text
\* builder, a tool call's argument builder) are sequences of pieces; an
\* instruction's Str is one piece of text.
MaxPushed == 3
MaxChunkLen == 2

\* streamToolCall{ID, Name, Args}
streamToolCall == [ID |-> "", Name |-> "", Args |-> <<>>]

\* NewStreamAssembler(), and the fields Reset() leaves.
NewStreamAssembler ==
    [respID |-> "", respModel |-> "", text |-> <<>>,
     toolCalls |-> [i \in {} |-> streamToolCall], toolOrder |-> <<>>,
     usage |-> NilJSON, finishReason |-> "", started |-> FALSE, done |-> FALSE]

\* Fault: a fragment replaces the arguments accumulated so far.
pushToolDelta_Overwrite(a, j) ==
    IF ~UnmarshalsAsObject(j) THEN a
    ELSE LET ok == j.index \in DOMAIN a.toolCalls
             tc == IF ok THEN a.toolCalls[j.index] ELSE streamToolCall
             tc2 == [ID |-> IF j.id # "" THEN j.id ELSE tc.ID,
                     Name |-> IF j.name # "" THEN j.name ELSE tc.Name,
                     Args |-> IF j.arguments # <<>> THEN j.arguments ELSE tc.Args]
         IN [a EXCEPT !.toolCalls = [k \in (DOMAIN a.toolCalls) \cup {j.index} |->
                                        IF k = j.index THEN tc2 ELSE a.toolCalls[k]],
                      !.toolOrder = IF ok THEN @ ELSE Append(@, j.index)]

\* StreamAssembler.pushToolDelta: accumulate id, name and arguments by index.
pushToolDelta(a, j) ==
    IF ~UnmarshalsAsObject(j) THEN a
    ELSE LET ok == j.index \in DOMAIN a.toolCalls
             tc == IF ok THEN a.toolCalls[j.index] ELSE streamToolCall
             tc2 == [ID |-> IF j.id # "" THEN j.id ELSE tc.ID,
                     Name |-> IF j.name # "" THEN j.name ELSE tc.Name,
                     Args |-> tc.Args \o j.arguments]
         IN [a EXCEPT !.toolCalls = [k \in (DOMAIN a.toolCalls) \cup {j.index} |->
                                        IF k = j.index THEN tc2 ELSE a.toolCalls[k]],
                      !.toolOrder = IF ok THEN @ ELSE Append(@, j.index)]

\* One iteration of the loop of StreamAssembler.Push.
AssembleInstruction(a, inst) ==
    CASE inst.Op = "RESP_ID" -> [a EXCEPT !.respID = inst.Str]
      [] inst.Op = "RESP_MODEL" -> [a EXCEPT !.respModel = inst.Str]
      [] inst.Op = "STREAM_START" -> [a EXCEPT !.started = TRUE]
      [] inst.Op = "STREAM_DELTA" -> [a EXCEPT !.text = Append(@, inst.Str)]
      [] inst.Op = "STREAM_TOOL_DELTA" -> pushToolDelta(a, inst.JSON)
      [] inst.Op = "USAGE" -> [a EXCEPT !.usage = inst.JSON]
      [] inst.Op = "RESP_DONE" -> [a EXCEPT !.finishReason = inst.Str]
      [] inst.Op = "STREAM_END" -> [a EXCEPT !.done = TRUE]
      [] OTHER -> a

RECURSIVE AssemblerPush(_, _, _)
\* StreamAssembler.Push(chunk), from instruction i on.
AssemblerPush(a, code, i) ==
    IF i > Len(code) THEN a
    ELSE AssemblerPush(AssembleInstruction(a, code[i]), code, i + 1)

\* A json.RawMessage holding the text args.
RawJSON(args) == [kind |-> "raw", index |-> 0, id |-> "", name |-> "", arguments |-> args]

\* The instructions Program() emits for one accumulated tool call.
CallBlock(tc) ==
    <<Instruction("CALL_START", tc.ID, NilJSON), Instruction("CALL_NAME", tc.Name, NilJSON)>>
    \o (IF tc.Args # <<>> THEN <<Instruction("CALL_ARGS", "", RawJSON(tc.Args))>> ELSE <<>>)
    \o <<Instruction("CALL_END", "", NilJSON)>>

RECURSIVE CallBlocks(_, _)
CallBlocks(a, n) ==
    IF n > Len(a.toolOrder) THEN <<>>
    ELSE CallBlock(a.toolCalls[a.toolOrder[n]]) \o CallBlocks(a, n + 1)

\* StreamAssembler.Program(): the response program of the accumulated state.
AssemblerProgram(a) ==
    (IF a.respID # "" THEN <<Instruction("RESP_ID", a.respID, NilJSON)>> ELSE <<>>)
    \o (IF a.respModel # "" THEN <<Instruction("RESP_MODEL", a.respModel, NilJSON)>> ELSE <<>>)
    \o <<Instruction("MSG_START", "", NilJSON), Instruction("ROLE_AST", "", NilJSON)>>
    \o (IF a.text # <<>> THEN <<Instruction("TXT_CHUNK", a.text, NilJSON)>> ELSE <<>>)
    \o CallBlocks(a, 1)
    \o (IF a.finishReason # ""
        THEN <<Instruction("RESP_DONE", a.finishReason, NilJSON)>> ELSE <<>>)
    \o <<Instruction("MSG_END", "", NilJSON)>>
    \o (IF a.usage.kind # "nil" THEN <<Instruction("USAGE", "", a.usage)>> ELSE <<>>)

\* The instructions of the pushed chunks: two texts, tool deltas of two
\* indices (a start, argument fragments, a whole call), a payload that is
\* not JSON, metadata and the end of the response.
AssemblerInstructions ==
    {TextDelta, Instruction("STREAM_DELTA", "u", NilJSON),
     Instruction("STREAM_TOOL_DELTA", "", ToolDeltaJSON(0, ToolId(0), ToolName(0), <<>>)),
     Instruction("STREAM_TOOL_DELTA", "", ToolDeltaJSON(0, "", "", <<"{">>)),
     Instruction("STREAM_TOOL_DELTA", "", ToolDeltaJSON(0, "", "", <<"}">>)),
     Instruction("STREAM_TOOL_DELTA", "", ToolDeltaJSON(1, ToolId(1), ToolName(1), <<"{">>)),
     Instruction("STREAM_TOOL_DELTA", "", BadJSON),
     Instruction("RESP_ID", "r1", NilJSON), Instruction("USAGE", "", UsageJSON),
     RespDone, StreamEnd}

AssemblerChunks == SeqsUpTo(AssemblerInstructions, MaxChunkLen)

\* libArg: the instructions pushed since the assembler was new or reset,
\* in push order.  libRes: the assembler, and what Program() returned last.
InitAssemble ==
    /\ IdleConverter
    /\ libOp = "NewStreamAssembler"
    /\ libArg = <<>>
    /\ libRes = [asm |-> NewStreamAssembler, prog |-> <<>>]
    /\ heap = <<>>
    /\ progs = <<>>

AssemblePush ==
    \E chunk \in AssemblerChunks :
       /\ Len(libArg) + Len(chunk) <= MaxPushed
       /\ libOp' = "Push"
       /\ libArg' = libArg \o chunk
       /\ libRes' = [asm |-> AssemblerPush(libRes.asm, chunk, 1), prog |-> <<>>]
       /\ UNCHANGED <<heap, progs, streamVars>>

AssembleProgram ==
    /\ libOp # "Program"
    /\ libOp' = "Program"
    /\ libRes' = [libRes EXCEPT !.prog = AssemblerProgram(libRes.asm)]
    /\ UNCHANGED <<libArg, heap, progs, streamVars>>

AssembleReset ==
    /\ libOp = "Program"
    /\ libOp' = "Reset"
    /\ libArg' = <<>>
    /\ libRes' = [asm |-> NewStreamAssembler, prog |-> <<>>]
    /\ UNCHANGED <<heap, progs, streamVars>>

NextAssemble == AssemblePush \/ AssembleProgram \/ AssembleReset

SpecAssemble == InitAssemble /\ [][NextAssemble]_vars

\* What the claim expects, computed from the pushed instructions alone.
RECURSIVE Concat(_, _)
Concat(pieces, i) == IF i > Len(pieces) THEN <<>> ELSE pieces[i] \o Concat(pieces, i + 1)

PushedDeltas(pushed) == SelectSeq(pushed, LAMBDA inst : inst.Op = "STREAM_DELTA")

PushedText(pushed) == [n \in 1..Len(PushedDeltas(pushed)) |-> PushedDeltas(pushed)[n].Str]

PushedToolDeltas(pushed) == SelectSeq(pushed, IsToolDelta)

\* The distinct tool indices, first seen first.
RECURSIVE FirstSeen(_, _, _)
FirstSeen(tds, i, seen) ==
    IF i > Len(tds) THEN seen
    ELSE IF \E n \in 1..Len(seen) : seen[n] = tds[i].JSON.index
    THEN FirstSeen(tds, i + 1, seen)
    ELSE FirstSeen(tds, i + 1, Append(seen, tds[i].JSON.index))

PushedArgs(pushed, idx) ==
    LET mine == SelectSeq(PushedToolDeltas(pushed), LAMBDA inst : inst.JSON.index = idx)
    IN Concat([n \in 1..Len(mine) |-> mine[n].JSON.arguments], 1)

\* Positions of opcode op in code, ascending.
PositionsOf(code, op) == SelectSeq([i \in 1..Len(code) |-> i], LAMBDA i : code[i].Op = op)

\* The text of the block code[from..to]: its CALL_ARGS payload, none being
\* the empty text.
BlockArgs(code, from, to) ==
    LET at == {i \in from..to : code[i].Op = "CALL_ARGS"}
    IN IF at = {} THEN <<>> ELSE code[CHOOSE i \in at : TRUE].JSON.arguments

\* C28: whatever was pushed, Program() returns one MSG_START, ROLE_AST ...
\* MSG_END block whose text is the pushed STREAM_DELTA values joined in push
\* order, with one CALL_START ... CALL_END block per distinct tool index in
\* first-seen order, each with the arguments of that index joined in push
\* order (an empty text or empty arguments have no instruction).
C28_AssemblerProgram ==
    libOp = "Program" =>
       LET prog == libRes.prog
           ms == PositionsOf(prog, "MSG_START")
           me == PositionsOf(prog, "MSG_END")
           txt == PositionsOf(prog, "TXT_CHUNK")
           cs == PositionsOf(prog, "CALL_START")
           ce == PositionsOf(prog, "CALL_END")
           order == FirstSeen(PushedToolDeltas(libArg), 1, <<>>)
       IN /\ Len(ms) = 1 /\ Len(me) = 1 /\ ms[1] < me[1]
          /\ prog[ms[1] + 1].Op = "ROLE_AST"
          /\ CountOp(prog, "ROLE_AST") = 1
          /\ IF PushedText(libArg) = <<>> THEN txt = <<>>
             ELSE /\ Len(txt) = 1
                  /\ ms[1] < txt[1] /\ txt[1] < me[1]
                  /\ prog[txt[1]].Str = PushedText(libArg)
          /\ Len(cs) = Len(order) /\ Len(ce) = Len(order)
          /\ CountOp(prog, "CALL_ARGS") <= Len(order)
          /\ \A k \in 1..Len(order) :
                /\ ms[1] < cs[k] /\ cs[k] < ce[k] /\ ce[k] < me[1]
                /\ k < Len(order) => ce[k] < cs[k + 1]
                /\ BlockArgs(prog, cs[k], ce[k]) = PushedArgs(libArg, order[k])
          /\ \A i \in 1..Len(prog) :
                prog[i].Op = "CALL_ARGS" => \E k \in 1..Len(order) : cs[k] < i /\ i < ce[k]

\* Program() after two texts, or after deltas of two tool indices of which
\* index 0 has its arguments in two fragments.
C28_Witness ==
    /\ libOp = "Program"
    /\ \/ Len(PushedText(libArg)) = 2
       \/ /\ Len(FirstSeen(PushedToolDeltas(libArg), 1, <<>>)) = 2
          /\ Len(PushedArgs(libArg, 0)) = 2


\* ------------------------------------------------------------------
\* The manipulation helpers on any integer arguments.  Each helper gives
\* [kind, code]: kind "ok" with the code of the returned Program, or "panic"
\* when the Go runtime stops the call (an index or a slice bound out of
\* range).
MaxManipLen == 3

ManipInts == (-1)..(MaxManipLen + 1)

Returned(code) == [kind |-> "ok", code |-> code]
Panicked == [kind |-> "panic", code |-> <<>>]

\* Slice(start, end): p.Code[i] is read for every i from the clamped start to
\* the clamped end.
SliceCall(code, start, end) ==
    LET s == IF start < 0 THEN 0 ELSE start
        e == IF end >= Len(code) THEN Len(code) - 1 ELSE end
    IN IF (s..e) \subseteq Indices(code) THEN Returned(Slice(code, start, end)) ELSE Panicked

\* TruncateMessages(n) without the clone mark.
TruncateCall(code, n) ==
    [kind |-> TruncateMessages(code, n).kind, code |-> TruncateMessages(code, n).code]

ManipInserted == <<OpInst("ROLE_AST")>>

InitManip ==
    /\ IdleConverter
    /\ libOp = "none"
    /\ \E code \in SeqsUpTo(TruncInsts, MaxManipLen), a \in ManipInts, b \in ManipInts :
          libArg = [code |-> code, a |-> a, b |-> b]
    /\ libRes = <<>>
    /\ heap = <<>>
    /\ progs = <<>>

Manip(op, r) ==
    /\ libOp = "none"
    /\ libOp' = op
    /\ libRes' = r
    /\ UNCHANGED <<libArg, heap, progs, streamVars>>

ManipSlice == Manip("Slice", SliceCall(libArg.code, libArg.a, libArg.b))

ManipRemoveRange ==
    Manip("RemoveRange", Returned(RemoveRange(libArg.code, libArg.a, libArg.b)))

ManipReplaceRange ==
    Manip("ReplaceRange",
          Returned(ReplaceRange(libArg.code, libArg.a, libArg.b, ManipInserted)))

ManipInsertBefore ==
    Manip("InsertBefore", Returned(InsertBefore(libArg.code, libArg.a, ManipInserted)))

ManipInsertAfter ==
    Manip("InsertAfter", Returned(InsertAfter(libArg.code, libArg.a, ManipInserted)))

ManipTruncateMessages ==
    Manip("TruncateMessages", TruncateCall(libArg.code, libArg.a))

NextManip ==
    \/ ManipSlice
    \/ ManipRemoveRange
    \/ ManipReplaceRange
    \/ ManipInsertBefore
    \/ ManipInsertAfter
    \/ ManipTruncateMessages

SpecManip == InitManip /\ [][NextManip]_vars

\* Slice's bounds clamped to the code: instructions max(start, 0) to
\* min(end, len - 1) of the code.
ClampedSlice(code, start, end) ==
    SubSeq(code, (IF start < 0 THEN 0 ELSE start) + 1,
                 (IF end >= Len(code) THEN Len(code) - 1 ELSE end) + 1)

\* C29: slice, remove_range, replace_range, insert_before, insert_after and
\* truncate_messages return a Program for every integer argument, negative,
\* reversed or out of range, slice clamping its bounds to the code.
C29_HelpersNeverFail ==
    libOp # "none" =>
       /\ libRes.kind = "ok"
       /\ libOp = "Slice" => libRes.code = ClampedSlice(libArg.code, libArg.a, libArg.b)


\* ------------------------------------------------------------------
\* C30: between any two operations of the translator, toolOrder holds each
\* tool index at most once and holds exactly the keys of pendingTools; both
\* are empty after Flush, and they hold exactly the indices whose fragments
\* arrived since the last drain (a terminal opcode of a buffered target, or
\* Flush), so both are empty right after one.
C30_ToolOrderMatchesPending ==
    /\ \A a, b \in 1..Len(toolOrder) : toolOrder[a] = toolOrder[b] => a = b
    /\ {toolOrder[n] : n \in 1..Len(toolOrder)} = DOMAIN pendingTools
    /\ lastOp = "flush" => (toolOrder = <<>> /\ pendingTools = EmptyTools)
    /\ toolOrder = open

\* Two indices are pending, one of them with two fragments merged.
C30_Witness ==
    /\ Len(toolOrder) = 2
    /\ \E i \in DOMAIN pendingTools : Len(pendingTools[i].Args) = 2

====
